---- MODULE Spec2Model ----
(***************************************************************************)
(* MangaReaderV2: the image resolution pipeline (api/manga.ts,             *)
(* utils/imageUtils.ts), the request gateway (api/client.ts), the image    *)
(* cache of the manga store (store/mangaStore.ts), the credential store    *)
(* (utils/storage.ts, api/auth.ts, store/authStore.ts) and the readers'    *)
(* preloading (components/reader/PageReader.tsx, VerticalReader.tsx), and  *)
(* the reader screen (app/(main)/reader/[chapterId].tsx).                  *)
(*                                                                         *)
(* JavaScript runs one task at a time; an async function is split at its   *)
(* awaits.  A resolve call is modelled in three steps: the call (the cache *)
(* lookup, synchronous), the fetch (the credential reads and the dispatch  *)
(* of get*ImageUrl) and, on the web, the arrival of the proxy's response.  *)
(* The three storage reads of one fetch are taken at one instant, and the  *)
(* conversion by getImageSource, which contains no await, is part of the   *)
(* step that receives the image source.                                    *)
(***************************************************************************)
EXTENDS Integers, Sequences, FiniteSets, Bags, TLC

VARIABLES
  platform,         \* Platform.OS: "web" or "native"
  storage,          \* localStorage / SecureStore: storage key -> string
  now,              \* Date.now(), in milliseconds
  imageCache,       \* mangaStore.ts imageCache: cache key -> [url, timestamp]
  chapterPageUrls,  \* mangaStore state chapterPageUrls: "c_p" -> uri
  tasks,            \* the calls in flight: a bag of call frames
  wire,             \* the HTTP requests sent and not yet answered: a bag
  nCalls,           \* number of calls made so far
  authPc,           \* position of the connect / disconnect flow in progress
  authSrv,          \* the server the connect flow in progress is connecting to
  ev,               \* the last observable event (what the step just taken did)
  dropped,          \* history: keys clearCache removed and no call has written since
  pMode,            \* preloading: reader mode, "page" or "vertical"
  pTotal,           \* preloading: pages.length
  pCur,             \* preloading: the current page number handed to preload
  pScheduled,       \* preloading: the pages handed to loadPageImage, in order
  pDone,            \* preloading: preloadAdjacentPages has run
  qRef,             \* pipeline: the reference a resolve call that missed is for
  qSrc,             \* pipeline: the image source the body of get*ImageUrl yields
  qFetchThrows,     \* pipeline: the body of get*ImageUrl throws
  qDecodeThrows,    \* pipeline: getImageSource throws
  qOut,             \* pipeline: how the resolve call completed
  gIn,              \* gateway: the arguments of a makeRequest call
  gOut,             \* gateway: what the call threw or sent
  screen,           \* reader screen: the state of its component, its load and its reader
  timers,           \* reader screen: the progress timers set and not yet fired or cleared
  fired,            \* reader screen: the pages of the progress timers that fired, in order
  rEv,              \* reader screen: what the step just taken did
  proxyHealth,      \* gateway: the result of the last proxy health check
  kRefs,            \* cache keys: a pair of content references
  kKeys,            \* cache keys: their cache keys, once computed
  kHit,             \* cache keys: a lookup of the second finds the entry of the first
  lTasks,           \* page loads: the loadPageImage calls in flight
  pageUrls,         \* page loads: the reader's pageUrls state
  lResolved,        \* page loads: history, page number -> uri it resolved to
  mInst,            \* session: the mounted screen instance, 0 when none
  mChapter,         \* session: the chapter the mounted instance shows
  mLoads,           \* session: the loadChapterData calls whose requests are pending
  mScreen,          \* session: the state of the mounted instance
  mStore,           \* session: the store's chapter data
  mEv,              \* session: what the step just taken did
  vw,               \* page reader: its chapterId prop, its pageUrls and its loads in flight
  au,               \* auth store: isAuthenticated, and the connect attempt in progress
  fl,               \* loading flags: the stores' flags and error fields, and the calls in flight
  px,               \* proxy: a request to POST /api-proxy and the answer to it
  img               \* MangaImage: its state, its props and its loads in flight

vars == <<platform, storage, now, imageCache, chapterPageUrls, tasks, wire,
          nCalls, authPc, authSrv, ev, dropped,
          pMode, pTotal, pCur, pScheduled, pDone,
          qRef, qSrc, qFetchThrows, qDecodeThrows, qOut, gIn, gOut,
          screen, timers, fired, rEv, proxyHealth,
          kRefs, kKeys, kHit, lTasks, pageUrls, lResolved,
          mInst, mChapter, mLoads, mScreen, mStore, mEv, vw, au, fl, px, img>>

storeVars == <<platform, storage, now, imageCache, chapterPageUrls, tasks, wire,
               nCalls, authPc, authSrv, ev, dropped>>

preloadVars == <<pMode, pTotal, pCur, pScheduled, pDone>>

pipelineVars == <<qRef, qSrc, qFetchThrows, qDecodeThrows, qOut>>

gatewayVars == <<gIn, gOut, proxyHealth>>

readerVars == <<screen, timers, fired, rEv>>

keyVars == <<kRefs, kKeys, kHit>>

loaderVars == <<lTasks, pageUrls, lResolved>>

sessionVars == <<mInst, mChapter, mLoads, mScreen, mStore, mEv>>

\* The state of the scenarios a step of the store or of a screen has no part in
componentVars == <<vw, au, fl, px, img>>

scenarioVars == <<keyVars, loaderVars, sessionVars, componentVars>>

\* What the store's steps, the preloading steps, the pipeline's steps and the
\* gateway's steps leave alone
storeFrame ==
  <<preloadVars, pipelineVars, gatewayVars, readerVars, scenarioVars>>
preloadFrame ==
  <<storeVars, pipelineVars, gatewayVars, readerVars, scenarioVars>>
pipelineFrame ==
  <<storeVars, preloadVars, gatewayVars, readerVars, scenarioVars>>
gatewayFrame ==
  <<storeVars, preloadVars, pipelineVars, readerVars, scenarioVars>>
readerFrame ==
  <<storeVars, preloadVars, pipelineVars, gatewayVars, scenarioVars>>
keyFrame ==
  <<storeVars, preloadVars, pipelineVars, gatewayVars, readerVars, loaderVars,
    sessionVars, componentVars>>
loaderFrame ==
  <<preloadVars, pipelineVars, gatewayVars, readerVars, keyVars, sessionVars,
    componentVars>>
sessionFrame ==
  <<storeVars, preloadVars, pipelineVars, gatewayVars, readerVars, keyVars,
    loaderVars, componentVars>>
\* What a step of one component leaves alone, its own state apart
programVars ==
  <<storeVars, preloadVars, pipelineVars, gatewayVars, readerVars, keyVars,
    loaderVars, sessionVars>>
viewFrame == <<programVars, au, fl, px, img>>
authFrame ==
  <<preloadVars, pipelineVars, gatewayVars, readerVars, keyVars, loaderVars,
    sessionVars, vw, fl, px, img>>
flagFrame == <<programVars, vw, au, px, img>>
proxyFrame == <<programVars, vw, au, fl, img>>
imageFrame == <<programVars, vw, au, fl, px>>

---------------------------------------------------------------------------
(* Bounds of the model *)

MaxCalls == 2       \* calls (resolve or makeRequest) made in one behaviour
MaxTicks == 2       \* clock ticks in one behaviour
TickMs == 300000    \* milliseconds per clock tick
MaxTotal == 21      \* preloading: pages.length ranges over 1..MaxTotal
MaxRetries == 1     \* reader screen: presses of Retry in one behaviour
MaxNav == 2         \* reader screen: navigation events in one behaviour
ReaderTickMs == 1000 \* reader screen: milliseconds per step of the timers' clock
MaxKeyId == 12      \* cache keys: ids range over 1..MaxKeyId, page numbers over 0..MaxKeyId
MaxLoadPage == 4    \* page loads: the pages loaded are 1..MaxLoadPage
MaxMounts == 1      \* session: times the reader screen is mounted in one behaviour

---------------------------------------------------------------------------
(* Values *)

Null == "<null>"    \* JavaScript null / undefined

Platforms == {"web", "native"}

\* utils/storage.ts StorageKeys
JWT_TOKEN == "kavita_jwt_token"
API_KEY == "kavita_api_key"
BASE_URL == "kavita_base_url"

\* mangaStore.ts CACHE_EXPIRY
CACHE_EXPIRY == 10 * 60 * 1000

\* The servers the user connects to, and the ids of the content requested
Servers == {1}
ChapterIds == {1}
PageNums == {1}
SeriesIds == {1}
VolumeIds == {1}

BaseUrlOf(s) == "https://host" \o ToString(s) \o "/kavita"
ApiKeyOf(s) == "apikey-000" \o ToString(s)
TokenOf(s) == "jwt" \o ToString(s)

\* utils/storage.ts getItem: the stored string, or null when the key is absent
getItem(st, k) == IF k \in DOMAIN st THEN st[k] ELSE Null

\* utils/storage.ts setItem / removeItem
setItem(st, k, v) == [x \in DOMAIN st \cup {k} |-> IF x = k THEN v ELSE st[x]]
removeItem(st, k) == [x \in DOMAIN st \ {k} |-> st[x]]

\* String.prototype.includes / startsWith
Includes(h, n) ==
  \E i \in 1..(Len(h) - Len(n) + 1) : SubSeq(h, i, i + Len(n) - 1) = n
StartsWith(h, n) == Len(h) >= Len(n) /\ SubSeq(h, 1, Len(n)) = n

\* A falsy JavaScript string value: null, undefined or ''
Falsy(s) == s = Null \/ s = ""

---------------------------------------------------------------------------
(* Content references and their cache keys, endpoints and parameters *)

Refs ==
  [kind : {"page"}, id : ChapterIds, page : PageNums]
    \cup [kind : {"chapter"}, id : ChapterIds, page : {0}]
    \cup [kind : {"series"}, id : SeriesIds, page : {0}]
    \cup [kind : {"volume"}, id : VolumeIds, page : {0}]

\* Variant: the page key without the separator between chapter and page
CacheKey_Unseparated(ref) ==
  CASE ref.kind = "series" -> "series_" \o ToString(ref.id)
    [] ref.kind = "volume" -> "volume_" \o ToString(ref.id)
    [] ref.kind = "chapter" -> "chapter_" \o ToString(ref.id)
    [] ref.kind = "page" -> "page_" \o ToString(ref.id) \o ToString(ref.page)
\* mangaStore.ts: the cacheKey of getSeriesCoverUrl, getVolumeCoverUrl,
\* getChapterCoverUrl and getPageUrl
CacheKey(ref) ==
  CASE ref.kind = "series" -> "series_" \o ToString(ref.id)
    [] ref.kind = "volume" -> "volume_" \o ToString(ref.id)
    [] ref.kind = "chapter" -> "chapter_" \o ToString(ref.id)
    [] ref.kind = "page" ->
         "page_" \o ToString(ref.id) \o "_" \o ToString(ref.page)

Keys == {CacheKey(r) : r \in Refs}

\* mangaStore.ts getPageUrl: the key of chapterPageUrls
PageUrlKey(ref) == ToString(ref.id) \o "_" \o ToString(ref.page)

\* api/manga.ts: the endpoint each get*ImageUrl requests
Endpoint(ref) ==
  CASE ref.kind = "series" -> "image/series-cover"
    [] ref.kind = "volume" -> "image/volume-cover"
    [] ref.kind = "chapter" -> "image/chapter-cover"
    [] ref.kind = "page" -> "reader/image"

\* api/manga.ts: the parameters each get*ImageUrl passes, without the apiKey
RefParams(ref) ==
  CASE ref.kind = "series" -> << <<"seriesId", ToString(ref.id)>> >>
    [] ref.kind = "volume" -> << <<"volumeId", ToString(ref.id)>> >>
    [] ref.kind = "chapter" -> << <<"chapterId", ToString(ref.id)>> >>
    [] ref.kind = "page" ->
         << <<"chapterId", ToString(ref.id)>>, <<"page", ToString(ref.page)>> >>

\* "k=v" entries joined with "&"
RECURSIVE JoinParams(_)
JoinParams(ps) ==
  IF Len(ps) = 0 THEN ""
  ELSE ps[1][1] \o "=" \o ps[1][2]
         \o (IF Len(ps) > 1 THEN "&" \o JoinParams(Tail(ps)) ELSE "")

\* api/client.ts makeRequest: undefined and null parameters are left out
DefinedParams(ps) == SelectSeq(ps, LAMBDA e : e[2] # Null)

\* api/client.ts makeRequest: queryString
QueryString(ps) ==
  IF JoinParams(DefinedParams(ps)) # ""
    THEN "?" \o JoinParams(DefinedParams(ps))
    ELSE ""

---------------------------------------------------------------------------
(* Image sources and their conversion to a URI *)

\* What get*ImageUrl hands to getImageSource: null, a string or binary data
NullSource == [tag |-> "null", str |-> "", bytes |-> <<>>]
StringSource(s) == [tag |-> "string", str |-> s, bytes |-> <<>>]
BytesSource(b) == [tag |-> "bytes", str |-> "", bytes |-> b]

\* JavaScript truthiness of an image source: an ArrayBuffer is always truthy
SourceFalsy(src) == src.tag = "null" \/ (src.tag = "string" /\ src.str = "")

B64Alphabet ==
  "ABCDEFGHIJKLMNOPQRSTUVWXYZabcdefghijklmnopqrstuvwxyz0123456789+/"
B64Char(i) == SubSeq(B64Alphabet, i + 1, i + 1)

\* btoa of the binary string whose character codes are b
RECURSIVE btoa(_)
btoa(b) ==
  IF Len(b) = 0 THEN ""
  ELSE
    LET b2 == IF Len(b) >= 2 THEN b[2] ELSE 0
        b3 == IF Len(b) >= 3 THEN b[3] ELSE 0
        n == b[1] * 65536 + b2 * 256 + b3
    IN  B64Char(n \div 262144) \o B64Char((n \div 4096) % 64)
          \o (IF Len(b) >= 2 THEN B64Char((n \div 64) % 64) ELSE "=")
          \o (IF Len(b) >= 3 THEN B64Char(n % 64) ELSE "=")
          \o (IF Len(b) > 3 THEN btoa(SubSeq(b, 4, Len(b))) ELSE "")

\* The character codes of a string made of the characters of a URL
IndexOf(str, c) == CHOOSE i \in 1..Len(str) : SubSeq(str, i, i) = c
CharCode(c) ==
  IF Includes("0123456789", c) THEN 47 + IndexOf("0123456789", c)
  ELSE IF Includes("ABCDEFGHIJKLMNOPQRSTUVWXYZ", c)
    THEN 64 + IndexOf("ABCDEFGHIJKLMNOPQRSTUVWXYZ", c)
  ELSE IF Includes("abcdefghijklmnopqrstuvwxyz", c)
    THEN 96 + IndexOf("abcdefghijklmnopqrstuvwxyz", c)
  ELSE IF Includes("+,-./", c) THEN 42 + IndexOf("+,-./", c)
  ELSE IF Includes(":;<=>?@", c) THEN 57 + IndexOf(":;<=>?@", c)
  ELSE IF c = "&" THEN 38
  ELSE 95  \* "_"
CharCodes(s) == [i \in 1..Len(s) |-> CharCode(SubSeq(s, i, i))]

\* utils/imageUtils.ts getImageSource: the uri, or null
getImageSource(imageData) ==
  IF SourceFalsy(imageData) THEN Null
  ELSE IF imageData.tag = "string" /\ StartsWith(imageData.str, "http")
    THEN imageData.str
  ELSE IF imageData.tag = "bytes"
    THEN "data:image/png;base64," \o btoa(imageData.bytes)
  ELSE \* Buffer.from(string).toString('base64'), then btoa of that
    "data:image/png;base64," \o btoa(CharCodes(btoa(CharCodes(imageData.str))))

\* Variant: the URL is built whether or not an API key is stored
getDirectImageUrl_NoKeyCheck(pf, st, endpoint, params) ==
  IF pf = "web" THEN ""
  ELSE IF Falsy(getItem(st, BASE_URL)) THEN ""
  ELSE getItem(st, BASE_URL) \o "/api/" \o endpoint \o "?" \o JoinParams(params)
         \o "&apiKey=" \o getItem(st, API_KEY)
\* utils/imageUtils.ts getDirectImageUrl: the direct URL, or ''
getDirectImageUrl(pf, st, endpoint, params) ==
  IF pf = "web" THEN ""
  ELSE IF Falsy(getItem(st, BASE_URL)) \/ Falsy(getItem(st, API_KEY)) THEN ""
  ELSE getItem(st, BASE_URL) \o "/api/" \o endpoint \o "?" \o JoinParams(params)
         \o "&apiKey=" \o getItem(st, API_KEY)

---------------------------------------------------------------------------
(* The request gateway: api/client.ts makeRequest *)

\* api/client.ts getProxyBaseUrl on the web, development build
ProxyBaseUrl == "http://localhost:3031"

ErrNoServerUrl == "Server URL not configured"
\* Variant: the error message leaves the status out
ApiError_NoStatus(status) == "API error: "
ApiError(status) == "API error: " \o ToString(status)

\* api/client.ts makeRequest: isImageEndpoint
isImageEndpoint(endpoint) ==
  \/ Includes(endpoint, "/image")
  \/ Includes(endpoint, "/cover")
  \/ Includes(endpoint, "series-cover")
  \/ Includes(endpoint, "volume-cover")
  \/ Includes(endpoint, "chapter-cover")

NoRequest ==
  [via |-> "none", url |-> "", httpMethod |-> "", auth |-> Null,
   responseType |-> "", target |-> "", method |-> "", body |-> Null,
   params |-> <<>>]

\* Variant: the header is attached whether or not a token is stored
AuthHeader_Always(st) == "Bearer " \o getItem(st, JWT_TOKEN)

\* The Authorization header makeRequest attaches: set only when a token is stored
AuthHeader(st) ==
  IF Falsy(getItem(st, JWT_TOKEN)) THEN Null
  ELSE "Bearer " \o getItem(st, JWT_TOKEN)

\* api/client.ts makeRequest, web branch: the POST to the proxy
ProxyRequest(st, endpoint, method, body, params) ==
  IF isImageEndpoint(endpoint)
    THEN [via |-> "proxy", url |-> ProxyBaseUrl \o "/api-proxy",
          httpMethod |-> "POST", auth |-> AuthHeader(st),
          responseType |-> "arraybuffer", target |-> endpoint,
          method |-> "GET", body |-> Null, params |-> params]
    ELSE [via |-> "proxy", url |-> ProxyBaseUrl \o "/api-proxy",
          httpMethod |-> "POST", auth |-> AuthHeader(st),
          responseType |-> "json", target |-> endpoint,
          method |-> method, body |-> IF Falsy(body) THEN "{}" ELSE body,
          params |-> params]

\* api/client.ts makeRequest, native branch: the direct call
DirectRequest(st, endpoint, method, body, params) ==
  [via |-> "direct",
   url |-> getItem(st, BASE_URL) \o "/api/" \o endpoint \o QueryString(params),
   httpMethod |-> method, auth |-> AuthHeader(st), responseType |-> "json",
   target |-> "", method |-> "",
   body |-> IF method = "GET" THEN Null ELSE body, params |-> <<>>]

\* Variant: the request is sent without looking at the stored base URL
makeRequest_Unchecked(pf, st, endpoint, method, body, params) ==
  IF pf = "web"
    THEN [throw |-> "", req |-> ProxyRequest(st, endpoint, method, body, params)]
    ELSE [throw |-> "", req |-> DirectRequest(st, endpoint, method, body, params)]
\* api/client.ts makeRequest up to the network call: the error it throws ("" when
\* none) and the request it sends (NoRequest when it throws first)
makeRequest(pf, st, endpoint, method, body, params) ==
  IF Falsy(getItem(st, BASE_URL))
    THEN [throw |-> ErrNoServerUrl, req |-> NoRequest]
  ELSE IF pf = "web"
    THEN [throw |-> "", req |-> ProxyRequest(st, endpoint, method, body, params)]
    ELSE [throw |-> "", req |-> DirectRequest(st, endpoint, method, body, params)]

\* The JSON endpoints the screens request (api/manga.ts getChapterDetails,
\* getChapterInfo): target, method, body, parameters
JsonCalls ==
  {[target |-> "chapter", method |-> "GET", body |-> Null,
    params |-> << <<"chapterId", "1">> >>],
   [target |-> "Reader/progress", method |-> "POST", body |-> "{progress}",
    params |-> <<>>]}

\* The bytes the server answers an image request with (a PNG signature)
ServerImage == <<137, 80, 78, 71>>

\* The HTTP statuses the model lets the proxy or the server answer with
Statuses == {200, 500}

---------------------------------------------------------------------------
(* The image cache of the manga store *)

\* Variant: an entry exactly CACHE_EXPIRY old still counts as fresh
CacheFresh_Inclusive(cache, key, t) ==
  key \in DOMAIN cache /\ t - cache[key].timestamp <= CACHE_EXPIRY
\* mangaStore.ts get*Url: cachedImage && Date.now() - cachedImage.timestamp <
\* CACHE_EXPIRY
CacheFresh(cache, key, t) ==
  key \in DOMAIN cache /\ t - cache[key].timestamp < CACHE_EXPIRY

\* Variant: the entry is created without the time of its creation
CacheWrite_Unstamped(cache, key, uri, t) ==
  [k \in DOMAIN cache \cup {key} |->
     IF k = key THEN [url |-> uri, timestamp |-> 0] ELSE cache[k]]
\* mangaStore.ts get*Url: imageCache[cacheKey] = { url, timestamp: Date.now() }
CacheWrite(cache, key, uri, t) ==
  [k \in DOMAIN cache \cup {key} |->
     IF k = key THEN [url |-> uri, timestamp |-> t] ELSE cache[k]]

\* mangaStore.ts getPageUrl: set(state => ({ chapterPageUrls: {...} })), done for
\* pages only
PageUrlsWrite(urls, ref, uri) ==
  IF ref.kind = "page"
    THEN [k \in DOMAIN urls \cup {PageUrlKey(ref)} |->
            IF k = PageUrlKey(ref) THEN uri ELSE urls[k]]
    ELSE urls

\* Variant: clearCache resets chapterPageUrls only and keeps the entries
ClearedCache_Keeping(cache) == cache
\* mangaStore.ts clearCache: every key of imageCache is deleted
ClearedCache(cache) == [k \in {} |-> cache[k]]

\* mangaStore.ts clearCache: set({ chapterPageUrls: {} })
ClearedPageUrls(urls) == [k \in {} |-> urls[k]]

\* api/manga.ts get*ImageUrl: the apiKey parameter appended on the web
WebParams(st, ref) == Append(RefParams(ref), <<"apiKey", getItem(st, API_KEY)>>)

\* api/manga.ts getSeriesCoverImageUrl: throws 'API key not available' on the web
\* when no API key is stored; the other three do not check
ThrowsNoApiKey(st, ref) == ref.kind = "series" /\ Falsy(getItem(st, API_KEY))

NoRef == [kind |-> "none", id |-> 0, page |-> 0]

NoEv ==
  [type |-> "init", key |-> "", hit |-> FALSE, done |-> FALSE, value |-> Null,
   entry |-> "none",
   mr |-> FALSE, err |-> "", status |-> 0]

\* The cache entry of a key as a call finds it: none, fresh, or stale (written
\* CACHE_EXPIRY or longer ago)
EntryState(key) ==
  IF key \notin DOMAIN imageCache THEN "none"
  ELSE IF now - imageCache[key].timestamp >= CACHE_EXPIRY THEN "stale"
  ELSE "fresh"

\* Variant: a failed resolution is remembered as an empty uri
ResolvedUri_Memoizing(src) ==
  IF SourceFalsy(src) THEN ""
  ELSE IF Falsy(getImageSource(src)) THEN ""
  ELSE getImageSource(src)
\* mangaStore.ts get*Url after the fetch: null unless the image source is truthy
\* and getImageSource yields a non-empty uri
ResolvedUri(src) ==
  IF SourceFalsy(src) THEN Null
  ELSE IF Falsy(getImageSource(src)) THEN Null
  ELSE getImageSource(src)

\* The frame of a call in flight: a resolve call (kind "image") or a JSON call,
\* before its fetch (pc "fetch") or waiting for the answer to request req (pc "net")
Task(kind, ref, pc, req) ==
  [kind |-> kind, ref |-> ref, pc |-> pc, req |-> req]

One(x) == SetToBag({x})

---------------------------------------------------------------------------
(* The store's resolve operations: getPageUrl, getSeriesCoverUrl,           *)
(* getVolumeCoverUrl, getChapterCoverUrl                                    *)

\* The call: the cache lookup.  A fresh entry is returned at once; otherwise the
\* call goes on to get*ImageUrl.
Resolve(ref) ==
  LET key == CacheKey(ref)
      hit == CacheFresh(imageCache, key, now)
      e == [NoEv EXCEPT !.type = "call", !.key = key, !.hit = hit,
              !.entry = EntryState(key)]
  IN  /\ nCalls < MaxCalls
      /\ nCalls' = nCalls + 1
      /\ IF hit
           THEN /\ ev' = [e EXCEPT !.done = TRUE, !.value = imageCache[key].url]
                /\ tasks' = tasks
           ELSE /\ ev' = e
                /\ tasks' = tasks (+) One(Task("image", ref, "fetch", NoRequest))
      /\ UNCHANGED <<platform, storage, now, imageCache, chapterPageUrls, wire,
                     authPc, authSrv, dropped>>

\* The end of resolve call t that got image source src: the conversion, the
\* cache write and the state update, or null with nothing written
Finish(t, src, e) ==
  LET key == CacheKey(t.ref)
      uri == ResolvedUri(src)
  IN  /\ tasks' = tasks (-) One(t)
      /\ ev' = [e EXCEPT !.key = key, !.done = TRUE, !.value = uri]
      /\ IF uri = Null
           THEN UNCHANGED <<imageCache, chapterPageUrls, dropped>>
           ELSE /\ imageCache' = CacheWrite(imageCache, key, uri, now)
                /\ chapterPageUrls' = PageUrlsWrite(chapterPageUrls, t.ref, uri)
                /\ dropped' = dropped \ {key}

\* api/manga.ts get*ImageUrl: native platforms build the direct URL; the web
\* sends the request through makeRequest.  An error thrown on the way is caught
\* and the image source is null.
Fetch(t) ==
  /\ BagIn(t, tasks)
  /\ t.kind = "image"
  /\ t.pc = "fetch"
  /\ LET r == makeRequest(platform, storage, Endpoint(t.ref), "GET", Null,
                          WebParams(storage, t.ref))
         e == [NoEv EXCEPT !.type = "fetch"]
     IN  IF platform # "web"
           THEN /\ Finish(t, StringSource(getDirectImageUrl(platform, storage,
                             Endpoint(t.ref), RefParams(t.ref))), e)
                /\ wire' = wire
         ELSE IF ThrowsNoApiKey(storage, t.ref)
           THEN /\ Finish(t, NullSource, [e EXCEPT !.err = "API key not available"])
                /\ wire' = wire
         ELSE IF r.throw # ""
           THEN /\ Finish(t, NullSource, [e EXCEPT !.mr = TRUE, !.err = r.throw])
                /\ wire' = wire
         ELSE /\ tasks' = (tasks (-) One(t)) (+) One(Task("image", t.ref, "net", r.req))
              /\ wire' = wire (+) One(r.req)
              /\ ev' = [e EXCEPT !.key = CacheKey(t.ref), !.mr = TRUE]
              /\ UNCHANGED <<imageCache, chapterPageUrls, dropped>>
  /\ UNCHANGED <<platform, storage, now, nCalls, authPc, authSrv>>

\* A JSON call through makeRequest (getChapterDetails, updateReadingProgress)
JsonRequest(c) ==
  LET r == makeRequest(platform, storage, c.target, c.method, c.body, c.params)
      e == [NoEv EXCEPT !.type = "makeRequest", !.mr = TRUE, !.err = r.throw]
  IN  /\ nCalls < MaxCalls
      /\ nCalls' = nCalls + 1
      /\ IF r.throw # ""
           THEN /\ ev' = [e EXCEPT !.done = TRUE]
                /\ UNCHANGED <<tasks, wire>>
           ELSE /\ ev' = e
                /\ tasks' = tasks (+) One(Task("json", NoRef, "net", r.req))
                /\ wire' = wire (+) One(r.req)
      /\ UNCHANGED <<platform, storage, now, imageCache, chapterPageUrls,
                     authPc, authSrv, dropped>>

\* The answer to the request of call t.  makeRequest returns the body of a 2xx
\* answer and throws "API error: <status> ..." otherwise; get*ImageUrl turns the
\* error into a null image source.
Respond(t, status) ==
  /\ BagIn(t, tasks)
  /\ t.pc = "net"
  /\ wire' = wire (-) One(t.req)
  /\ LET e == [NoEv EXCEPT !.type = "respond", !.status = status,
                 !.err = IF status = 200 THEN "" ELSE ApiError(status)]
     IN  IF t.kind = "image"
           THEN Finish(t, IF status = 200 THEN BytesSource(ServerImage)
                          ELSE NullSource, e)
           ELSE /\ tasks' = tasks (-) One(t)
                /\ ev' = [e EXCEPT !.done = TRUE]
                /\ UNCHANGED <<imageCache, chapterPageUrls, dropped>>
  /\ UNCHANGED <<platform, storage, now, nCalls, authPc, authSrv>>

\* mangaStore.ts clearCache
ClearCache ==
  /\ imageCache' = ClearedCache(imageCache)
  /\ chapterPageUrls' = ClearedPageUrls(chapterPageUrls)
  /\ dropped' = dropped \cup DOMAIN imageCache
  /\ ev' = [NoEv EXCEPT !.type = "clearCache"]
  /\ UNCHANGED <<platform, storage, now, tasks, wire, nCalls, authPc, authSrv>>

\* Time passes
Tick ==
  /\ now < MaxTicks * TickMs
  /\ now' = now + TickMs
  /\ ev' = [NoEv EXCEPT !.type = "other"]
  /\ UNCHANGED <<platform, storage, imageCache, chapterPageUrls, tasks, wire,
                 nCalls, authPc, authSrv, dropped>>

---------------------------------------------------------------------------
(* Connecting and disconnecting: api/auth.ts, store/authStore.ts *)

\* api/auth.ts connectToKavita: the parsed base URL and API key are stored
\* before the authentication is attempted (the two writes are taken as one step)
ConnectStart(s) ==
  /\ authPc = "idle"
  /\ storage' = setItem(setItem(storage, BASE_URL, BaseUrlOf(s)),
                        API_KEY, ApiKeyOf(s))
  /\ authPc' = "authenticating"
  /\ authSrv' = s
  /\ ev' = [NoEv EXCEPT !.type = "other"]
  /\ UNCHANGED <<platform, now, imageCache, chapterPageUrls, tasks, wire,
                 nCalls, dropped>>

\* api/auth.ts refreshToken: the server answered with a token, which is stored
\* with the API key and the base URL
ConnectAuthenticated ==
  /\ authPc = "authenticating"
  /\ storage' = setItem(setItem(setItem(storage, JWT_TOKEN, TokenOf(authSrv)),
                                API_KEY, ApiKeyOf(authSrv)),
                        BASE_URL, BaseUrlOf(authSrv))
  /\ authPc' = "idle"
  /\ authSrv' = 0
  /\ ev' = [NoEv EXCEPT !.type = "other"]
  /\ UNCHANGED <<platform, now, imageCache, chapterPageUrls, tasks, wire,
                 nCalls, dropped>>

\* api/auth.ts refreshToken returned null (proxy unavailable, request failed, no
\* token in the answer): connectToKavita reports the failure
ConnectFailed ==
  /\ authPc = "authenticating"
  /\ authPc' = "idle"
  /\ authSrv' = 0
  /\ ev' = [NoEv EXCEPT !.type = "other"]
  /\ UNCHANGED <<platform, storage, now, imageCache, chapterPageUrls, tasks,
                 wire, nCalls, dropped>>

\* store/authStore.ts disconnectServer -> api/auth.ts logout: the three stored
\* items are removed one await after the other
LogoutToken ==
  /\ authPc = "idle"
  /\ storage' = removeItem(storage, JWT_TOKEN)
  /\ authPc' = "logoutApiKey"
  /\ ev' = [NoEv EXCEPT !.type = "other"]
  /\ UNCHANGED <<platform, now, imageCache, chapterPageUrls, tasks, wire,
                 nCalls, authSrv, dropped>>

LogoutApiKey ==
  /\ authPc = "logoutApiKey"
  /\ storage' = removeItem(storage, API_KEY)
  /\ authPc' = "logoutBaseUrl"
  /\ ev' = [NoEv EXCEPT !.type = "other"]
  /\ UNCHANGED <<platform, now, imageCache, chapterPageUrls, tasks, wire,
                 nCalls, authSrv, dropped>>

\* Variant: logout leaves the base URL in storage
LogoutBaseUrl_Keeping ==
  /\ authPc = "logoutBaseUrl"
  /\ storage' = storage
  /\ authPc' = "idle"
  /\ ev' = [NoEv EXCEPT !.type = "disconnected"]
  /\ UNCHANGED <<platform, now, imageCache, chapterPageUrls, tasks, wire,
                 nCalls, authSrv, dropped>>
\* The last removal; logout returns and disconnectServer clears the auth state
\* and completes
LogoutBaseUrl ==
  /\ authPc = "logoutBaseUrl"
  /\ storage' = removeItem(storage, BASE_URL)
  /\ authPc' = "idle"
  /\ ev' = [NoEv EXCEPT !.type = "disconnected"]
  /\ UNCHANGED <<platform, now, imageCache, chapterPageUrls, tasks, wire,
                 nCalls, authSrv, dropped>>

---------------------------------------------------------------------------
(* The readers' preloading *)

\* Variant: the filter lets page 0 through
PagePreloadAdjacentPages_FromZero(currentPageNumber, pagesLength) ==
  SelectSeq(<<currentPageNumber + 1, currentPageNumber + 2, currentPageNumber - 1>>,
            LAMBDA pageNum : pageNum >= 0 /\ pageNum <= pagesLength)
\* components/reader/PageReader.tsx preloadAdjacentPages: the pages handed to
\* loadPageImage, in order
PagePreloadAdjacentPages(currentPageNumber, pagesLength) ==
  SelectSeq(<<currentPageNumber + 1, currentPageNumber + 2, currentPageNumber - 1>>,
            LAMBDA pageNum : pageNum > 0 /\ pageNum <= pagesLength)

\* Variant: the page reader's list, with the previous page, in the vertical reader
VerticalPreloadAdjacentPages_Backward(currentPageNumber, pagesLength) ==
  SelectSeq(<<currentPageNumber + 1, currentPageNumber + 2, currentPageNumber - 1>>,
            LAMBDA pageNum : pageNum > 0 /\ pageNum <= pagesLength)
\* components/reader/VerticalReader.tsx preloadAdjacentPages
VerticalPreloadAdjacentPages(currentPageNumber, pagesLength) ==
  SelectSeq(<<currentPageNumber + 1, currentPageNumber + 2, currentPageNumber + 3>>,
            LAMBDA pageNum : pageNum > 0 /\ pageNum <= pagesLength)

\* PageReader: preloadAdjacentPages(pCur) runs
PagePreload ==
  /\ pMode = "page"
  /\ ~pDone
  /\ pScheduled' = PagePreloadAdjacentPages(pCur, pTotal)
  /\ pDone' = TRUE
  /\ UNCHANGED <<pMode, pTotal, pCur>>
  /\ UNCHANGED preloadFrame

\* VerticalReader: preloadAdjacentPages(pCur) runs
VerticalPreload ==
  /\ pMode = "vertical"
  /\ ~pDone
  /\ pScheduled' = VerticalPreloadAdjacentPages(pCur, pTotal)
  /\ pDone' = TRUE
  /\ UNCHANGED <<pMode, pTotal, pCur>>
  /\ UNCHANGED preloadFrame

\* The page in view changes (handleViewableItemsChanged): the next preload is
\* for page p
PageChange(p) ==
  /\ pDone
  /\ p # pCur
  /\ pCur' = p
  /\ pScheduled' = <<>>
  /\ pDone' = FALSE
  /\ UNCHANGED <<pMode, pTotal>>
  /\ UNCHANGED preloadFrame

---------------------------------------------------------------------------
(* The resolve operations past the cache check, outcome by outcome *)

\* How a call completes: by returning value, or by throwing
Returned(value) == [done |-> TRUE, thrown |-> FALSE, value |-> value]
Thrown == [done |-> TRUE, thrown |-> TRUE, value |-> Null]
Pending == [done |-> FALSE, thrown |-> FALSE, value |-> Null]

\* The image sources the body of get*ImageUrl can yield: null, '', a direct URL, a
\* string that is no URL, binary data, empty binary data
PipelineSources ==
  {NullSource, StringSource(""),
   StringSource(BaseUrlOf(1) \o "/api/reader/image?chapterId=1&page=1&apiKey="
                  \o ApiKeyOf(1)),
   StringSource("iVBORw0KGgo"),
   BytesSource(ServerImage), BytesSource(<<>>)}

\* api/manga.ts get*ImageUrl: try { ... } catch (error) { return null }
getImageUrlCaught(throws, src) == IF throws THEN NullSource ELSE src

\* Variant: the store's catch block rethrows
getUrlMiss_Rethrowing(fetchThrows, src, decodeThrows) ==
  IF SourceFalsy(getImageUrlCaught(fetchThrows, src)) THEN Returned(Null)
  ELSE IF decodeThrows THEN Thrown
  ELSE Returned(ResolvedUri(getImageUrlCaught(fetchThrows, src)))

\* mangaStore.ts get*Url past the cache check: try { imageSource = await
\* get*ImageUrl(...); if (!imageSource) return null; imageSourceObj = await
\* getImageSource(...); ... return imageSourceObj.uri } catch { return null }
getUrlMiss(fetchThrows, src, decodeThrows) ==
  IF SourceFalsy(getImageUrlCaught(fetchThrows, src)) THEN Returned(Null)
  ELSE IF decodeThrows THEN Returned(Null)
  ELSE Returned(ResolvedUri(getImageUrlCaught(fetchThrows, src)))

\* The resolve call for qRef runs to its end
PipelineRun ==
  /\ ~qOut.done
  /\ qOut' = getUrlMiss(qFetchThrows, qSrc, qDecodeThrows)
  /\ UNCHANGED <<qRef, qSrc, qFetchThrows, qDecodeThrows>>
  /\ UNCHANGED pipelineFrame

\* The next resolve call, with its outcomes
PipelineCall(ref, src, fetchThrows, decodeThrows) ==
  /\ qOut.done
  /\ qRef' = ref
  /\ qSrc' = src
  /\ qFetchThrows' = fetchThrows
  /\ qDecodeThrows' = decodeThrows
  /\ qOut' = Pending
  /\ UNCHANGED pipelineFrame

PipelineIdle ==
  /\ qRef = NoRef
  /\ qSrc = NullSource
  /\ qFetchThrows = FALSE
  /\ qDecodeThrows = FALSE
  /\ qOut = Pending

---------------------------------------------------------------------------
(* The request gateway, call by call *)

\* What the credential store can hold: nothing; base URL and API key (connecting,
\* or logging out after the token is removed); all three; the base URL alone
\* (logging out)
GatewayStorages ==
  LET none == [k \in {} |-> ""]
      two == setItem(setItem(none, BASE_URL, BaseUrlOf(1)), API_KEY, ApiKeyOf(1))
  IN  {none, two, setItem(two, JWT_TOKEN, TokenOf(1)),
       setItem(none, BASE_URL, BaseUrlOf(1))}

GatewayCall(endpoint, method, body, params) ==
  [endpoint |-> endpoint, method |-> method, body |-> body, params |-> params]

\* The makeRequest calls of api/manga.ts and api/auth.ts
GatewayCalls(st) ==
  {GatewayCall("Series/all-v2", "POST", "{payload}", <<>>),
   GatewayCall("Series/1", "GET", Null, <<>>),
   GatewayCall("Reader/chapter-page-list?chapterId=1", "GET", Null, <<>>),
   GatewayCall("Reader/mark-chapter-read?chapterId=1", "POST", Null, <<>>),
   GatewayCall("Reader/progress", "POST", "{progress}", <<>>),
   GatewayCall("chapter", "GET", Null, << <<"chapterId", "1">> >>),
   GatewayCall("reader/chapter-info", "GET", Null,
               << <<"chapterId", "1">>, <<"includeDimensions", "true">> >>),
   GatewayCall("reader/get-progress", "GET", Null, << <<"chapterId", "1">> >>),
   GatewayCall("Plugin/authenticate", "POST", Null,
               << <<"apiKey", ApiKeyOf(1)>>, <<"pluginName", "KavitaReader">> >>)}
    \cup {GatewayCall(Endpoint(ref), "GET", Null, WebParams(st, ref)) : ref \in Refs}

NoCall == GatewayCall("", "", Null, <<>>)
NotSent == [done |-> FALSE, throw |-> "", req |-> NoRequest]

\* What the last checkProxyAvailability call returned: "unchecked" before
\* the first call
ProxyHealths == {"unchecked", "ok", "failed"}

\* api/client.ts checkProxyAvailability (198-215), called by refreshToken:
\* true off the web; on the web, whether GET {proxy}/health answered ok
checkProxyAvailability(pf, up) ==
  IF pf # "web" THEN TRUE ELSE up

\* api/auth.ts refreshToken (61-71): authentication goes on to makeRequest
\* only when the proxy is available
MayAuthenticate(pf, health, c) ==
  (c.endpoint = "Plugin/authenticate" /\ pf = "web") => health = "ok"

\* refreshToken checks the proxy, which is up or down
CheckProxy(up) ==
  /\ gOut.done
  /\ proxyHealth' = IF checkProxyAvailability(platform, up) THEN "ok" ELSE "failed"
  /\ UNCHANGED <<gIn, gOut>>
  /\ UNCHANGED gatewayFrame

\* makeRequest runs up to its network call
GatewaySend ==
  /\ ~gOut.done
  /\ gOut' = [done |-> TRUE,
              throw |-> makeRequest(platform, storage, gIn.endpoint, gIn.method,
                                    gIn.body, gIn.params).throw,
              req |-> makeRequest(platform, storage, gIn.endpoint, gIn.method,
                                  gIn.body, gIn.params).req]
  /\ UNCHANGED <<gIn, proxyHealth>>
  /\ UNCHANGED gatewayFrame

\* The next makeRequest call
GatewayNext(c) ==
  /\ gOut.done
  /\ MayAuthenticate(platform, proxyHealth, c)
  /\ gIn' = c
  /\ gOut' = NotSent
  /\ UNCHANGED proxyHealth
  /\ UNCHANGED gatewayFrame

GatewayIdle ==
  /\ gIn = NoCall
  /\ gOut = NotSent
  /\ proxyHealth = "unchecked"

---------------------------------------------------------------------------
(* The reader screen: app/(main)/reader/[chapterId].tsx *)

\* [chapterId].tsx handleProgressUpdate: the delay of the progress timer, in
\* milliseconds
PROGRESS_DELAY == 2000

\* The lengths of the chapters opened (info.pages)
Totals == {3, 10}

\* The page a stored reading progress names (progress.pageNum) in a chapter
\* of n pages
ProgressPages(n) == {k \in {0, 3, 4} : k < n}

\* The messages the screen shows in its error view
InvalidIdError == "Invalid chapter ID"
LoadError == "Failed to load chapter information"
DetailsError == "Failed to fetch chapter details"
InfoError == "Failed to fetch chapter info"

\* How the three requests of one loadChapterData call settle: details and info
\* succeed or fail, info names the chapter's pages, progress is "ok" (stored,
\* with pageNum), "none" (nothing stored) or "fail"; effectLast: the
\* chapterError effect runs after the catch of loadChapterData
LoadOutcomes ==
  {o \in [details : BOOLEAN, info : BOOLEAN, pages : Totals,
          progress : {"ok", "none", "fail"}, pageNum : {0, 3, 4},
          effectLast : BOOLEAN] :
     /\ o.pageNum \in ProgressPages(o.pages)
     /\ o.progress # "ok" => o.pageNum = 0
     /\ o.info => ~o.effectLast
     /\ ~o.info => o.pages = 3}

\* A chapter id that is not a number: every request about it fails
InvalidIdOutcomes ==
  {o \in LoadOutcomes : ~o.details /\ ~o.info /\ o.progress = "fail"}

NoOutcome ==
  [details |-> TRUE, info |-> TRUE, pages |-> 3, progress |-> "none",
   pageNum |-> 0, effectLast |-> FALSE]

\* The screen before it is mounted: the initial values of its useState calls
ScreenIdle ==
  [mounted |-> FALSE, validId |-> TRUE,
   isLoading |-> TRUE, error |-> Null, chapterError |-> Null,
   readingMode |-> "page", pages |-> <<>>, currentPage |-> 0, totalPages |-> 0,
   progressThrottle |-> 0,
   load |-> "none", retries |-> 0,
   readerMounted |-> FALSE, closureThrottle |-> 0, closurePage |-> 0,
   shown |-> 0, scheduled |-> <<>>, nextId |-> 1]

\* loadChapterData ([chapterId].tsx 67-72): the page objects of a chapter of n
\* pages, Array.from({ length: n }, (_, i) => ({ pageNumber: i, ... }))
PageObjects(n) == [k \in 1..n |-> [pageNumber |-> k - 1]]

\* The view the screen renders ([chapterId].tsx 178-215)
Phase(s) ==
  IF ~s.mounted THEN "Idle"
  ELSE IF s.isLoading THEN "Loading"
  ELSE IF s.error # Null THEN "Error"
  ELSE "Ready"

NoReaderEv ==
  [type |-> "none", outcome |-> NoOutcome, pageNumber |-> 0, latest |-> FALSE,
   calls |-> <<>>]

\* latest: the timer that fired was set by the latest navigation event
ReaderEv(type, outcome, pageNumber, latest) ==
  [type |-> type, outcome |-> outcome, pageNumber |-> pageNumber, latest |-> latest,
   calls |-> <<>>]

\* The initial effect of the reader component (PageReader.tsx 119-130,
\* VerticalReader.tsx 177-188): the page number it starts from
InitialPageNumber(mode, initialPage) ==
  IF mode = "page" THEN initialPage + 1 ELSE initialPage

\* The initial effect of the reader component: the pages it hands to
\* preloadAdjacentPages, in order
InitialPreload(mode, initialPage, pagesLength) ==
  IF mode = "page"
  THEN PagePreloadAdjacentPages(InitialPageNumber(mode, initialPage), pagesLength)
  ELSE VerticalPreloadAdjacentPages(InitialPageNumber(mode, initialPage), pagesLength)

\* The reader component is rendered for the first time: its viewability
\* handler keeps the props and state of this render (useRef(...).current)
MountReader(s) ==
  [s EXCEPT !.readerMounted = TRUE,
            !.closureThrottle = s.progressThrottle,
            !.closurePage = s.currentPage,
            !.shown = IF s.totalPages > 0
                      THEN InitialPageNumber(s.readingMode, s.currentPage) ELSE @,
            !.scheduled = IF s.totalPages > 0
                          THEN InitialPreload(s.readingMode, s.currentPage, s.totalPages)
                          ELSE @]

\* The mount effect ([chapterId].tsx 93-111)
Mount(valid) ==
  /\ ~screen.mounted
  /\ screen' = IF valid
               THEN [screen EXCEPT !.mounted = TRUE, !.validId = TRUE,
                                   !.isLoading = TRUE, !.error = Null,
                                   !.chapterError = Null, !.load = "issued"]
               ELSE [screen EXCEPT !.mounted = TRUE, !.validId = FALSE,
                                   !.isLoading = FALSE, !.error = InvalidIdError]
  /\ rEv' = ReaderEv("mount", NoOutcome, 0, FALSE)
  /\ UNCHANGED <<timers, fired>>

\* The chapterError of the store once the requests have settled
\* (mangaStore.ts fetchChapterDetails, fetchChapterInfo; fetchReadingProgress
\* sets none)
ChapterErrorAfter(o) ==
  IF ~o.info /\ (o.details \/ o.effectLast) THEN InfoError
  ELSE IF ~o.details THEN DetailsError
  ELSE Null

\* The error state once loadChapterData has finished: its catch block
\* ([chapterId].tsx 85-89) and the chapterError effect (114-118)
LoadedError(s, o) ==
  IF ~o.info
  THEN IF o.effectLast THEN ChapterErrorAfter(o) ELSE LoadError
  ELSE IF ~o.details THEN DetailsError
  ELSE s.error

\* Variant: the stored progress is ignored
SeededPage_Unseeded(o) == 0
\* loadChapterData: the current page after the load ([chapterId].tsx 76-80)
SeededPage(o) ==
  IF o.progress = "ok" THEN o.pageNum ELSE 0

\* loadChapterData from the point where its three requests have settled
\* ([chapterId].tsx 62-89)
LoadDone(o) ==
  /\ screen.load = "issued"
  /\ screen.validId \/ o \in InvalidIdOutcomes
  /\ LET s1 == [screen EXCEPT !.load = "none",
                              !.isLoading = FALSE,
                              !.chapterError = ChapterErrorAfter(o),
                              !.error = LoadedError(screen, o),
                              !.pages = IF o.info THEN PageObjects(o.pages) ELSE @,
                              !.totalPages = IF o.info THEN Len(PageObjects(o.pages)) ELSE @,
                              !.currentPage = IF o.info THEN SeededPage(o) ELSE @]
     IN  screen' = IF Phase(s1) = "Ready" THEN MountReader(s1) ELSE s1
  /\ rEv' = ReaderEv("loaded", o, 0, FALSE)
  /\ UNCHANGED <<timers, fired>>

\* handleRetry ([chapterId].tsx 168-175): loadChapterData runs 100 ms later
Retry ==
  /\ Phase(screen) = "Error"
  /\ screen.retries < MaxRetries
  /\ screen' = [screen EXCEPT !.isLoading = TRUE, !.error = Null,
                              !.load = "scheduled", !.retries = @ + 1]
  /\ rEv' = ReaderEv("retry", NoOutcome, 0, FALSE)
  /\ UNCHANGED <<timers, fired>>

\* The timer of handleRetry fires: loadChapterData issues its three requests
\* ([chapterId].tsx 54-60; fetchChapterDetails and fetchChapterInfo reset
\* chapterError)
LoadStart ==
  /\ screen.load = "scheduled"
  /\ screen' = [screen EXCEPT !.load = "issued", !.chapterError = Null]
  /\ rEv' = ReaderEv("reissued", NoOutcome, 0, FALSE)
  /\ UNCHANGED <<timers, fired>>

\* toggleReadingMode ([chapterId].tsx 120-122): the other reader component is
\* rendered in place of the current one
ToggleReadingMode ==
  /\ Phase(screen) = "Ready"
  /\ screen' = MountReader([screen EXCEPT !.readingMode =
                              IF @ = "vertical" THEN "page" ELSE "vertical"])
  /\ rEv' = ReaderEv("toggle", NoOutcome, 0, FALSE)
  /\ UNCHANGED <<timers, fired>>

\* handleProgressUpdate(pageNumber) ([chapterId].tsx 128-156) as the render
\* whose progressThrottle is throttle defined it: the timer in throttle is
\* cleared, a new one is set
handleProgressUpdate(pageNumber, throttle) ==
  /\ screen.nextId <= MaxNav
  /\ timers' = {t \in timers : t.id # throttle} \cup
               {[id |-> screen.nextId, pageNumber |-> pageNumber,
                 left |-> PROGRESS_DELAY]}
  /\ rEv' = ReaderEv("nav", NoOutcome, pageNumber, FALSE)
  /\ UNCHANGED fired

AfterProgressUpdate(s, pageNumber) ==
  [s EXCEPT !.currentPage = pageNumber, !.progressThrottle = s.nextId,
            !.nextId = @ + 1]

\* The page in view becomes the page whose pageNumber is p
\* (PageReader.tsx 37-59, VerticalReader.tsx 96-118): the handler of the
\* reader's first render runs
Scroll(p) ==
  /\ Phase(screen) = "Ready"
  /\ screen.readerMounted
  /\ p \in {screen.pages[k].pageNumber : k \in DOMAIN screen.pages}
  /\ screen.readingMode = "vertical" => p # screen.closurePage
  /\ handleProgressUpdate(p, screen.closureThrottle)
  /\ screen' = [AfterProgressUpdate(screen, p) EXCEPT
                  !.shown = IF screen.readingMode = "page" THEN p ELSE @,
                  !.scheduled =
                    IF screen.readingMode = "page"
                    THEN PagePreloadAdjacentPages(p, screen.totalPages)
                    ELSE VerticalPreloadAdjacentPages(p, screen.totalPages)]

\* The forward button ([chapterId].tsx 279-290)
Forward ==
  /\ Phase(screen) = "Ready"
  /\ ~(screen.currentPage >= screen.totalPages)
  /\ LET pageNumber == IF screen.currentPage + 1 < screen.totalPages
                       THEN screen.currentPage + 1 ELSE screen.totalPages
     IN  /\ handleProgressUpdate(pageNumber, screen.progressThrottle)
         /\ screen' = AfterProgressUpdate(screen, pageNumber)

\* The back button ([chapterId].tsx 267-278)
Back ==
  /\ Phase(screen) = "Ready"
  /\ ~(screen.currentPage <= 1)
  /\ LET pageNumber == IF screen.currentPage - 1 > 1
                       THEN screen.currentPage - 1 ELSE 1
     IN  /\ handleProgressUpdate(pageNumber, screen.progressThrottle)
         /\ screen' = AfterProgressUpdate(screen, pageNumber)

\* The calls to the server the callback of a progress timer makes
\* ([chapterId].tsx 137-153): updateReadingProgress and markChapterAsRead are
\* commented out, on the last page as on any other
TimerCallbackCalls(pageNumber, totalPages) ==
  IF pageNumber = totalPages THEN <<>> ELSE <<>>

\* A progress timer fires: its callback runs for the page it was set for
\* ([chapterId].tsx 137-153)
TimerFire(t) ==
  /\ t \in timers
  /\ t.left = 0
  /\ timers' = timers \ {t}
  /\ fired' = Append(fired, t.pageNumber)
  /\ rEv' = [ReaderEv("fire", NoOutcome, t.pageNumber, t.id = screen.nextId - 1)
               EXCEPT !.calls = TimerCallbackCalls(t.pageNumber, screen.totalPages)]
  /\ UNCHANGED screen

\* Time passes while progress timers are pending; a timer that is due fires
\* before more time passes
ReaderTick ==
  /\ timers # {}
  /\ \A t \in timers : t.left > 0
  /\ timers' = {[t EXCEPT !.left = IF @ > ReaderTickMs THEN @ - ReaderTickMs ELSE 0] :
                  t \in timers}
  /\ rEv' = ReaderEv("tick", NoOutcome, 0, FALSE)
  /\ UNCHANGED <<screen, fired>>

\* The user leaves the reader: the screen unmounts.  Its cleanups are
\* clearChapterData ([chapterId].tsx 50-52) and the clearTimeout of the
\* controls timer (110); the timer in progressThrottle is left pending
ReaderUnmount ==
  /\ screen.mounted
  /\ screen' = [screen EXCEPT !.mounted = FALSE, !.readerMounted = FALSE]
  /\ rEv' = ReaderEv("unmount", NoOutcome, 0, FALSE)
  /\ UNCHANGED <<timers, fired>>

ReaderIdle ==
  /\ screen = ScreenIdle
  /\ timers = {}
  /\ fired = <<>>
  /\ rEv = NoReaderEv

---------------------------------------------------------------------------
(* The cache keys of two content references *)

\* Content references over a range of ids and page numbers
WideRefs ==
  [kind : {"page"}, id : 1..MaxKeyId, page : 0..MaxKeyId]
    \cup [kind : {"chapter", "series", "volume"}, id : 1..MaxKeyId, page : {0}]

\* The keys of the two references are computed; the first reference's entry
\* is written to an empty cache and the second reference is looked up
\* (mangaStore.ts 394-399, 415-418)
KeysCompute ==
  /\ kKeys = <<>>
  /\ kKeys' = <<CacheKey(kRefs[1]), CacheKey(kRefs[2])>>
  /\ kHit' = CacheFresh(CacheWrite([k \in {} |-> [url |-> "", timestamp |-> 0]],
                                   CacheKey(kRefs[1]), "uri", 0),
                        CacheKey(kRefs[2]), 0)
  /\ UNCHANGED kRefs
  /\ UNCHANGED keyFrame

KeysIdle ==
  /\ kRefs = <<NoRef, NoRef>>
  /\ kKeys = <<>>
  /\ kHit = FALSE

---------------------------------------------------------------------------
(* The readers' page loads: loadPageImage and getPageUrl, load by load *)

\* The chapter whose pages are loaded
LoadRef(p) == [kind |-> "page", id |-> 1, page |-> p]

\* The credentials stored while a chapter is read
ConnectedStorage ==
  setItem(setItem(setItem([k \in {} |-> ""], BASE_URL, BaseUrlOf(1)),
                  API_KEY, ApiKeyOf(1)), JWT_TOKEN, TokenOf(1))

\* What getPageImageUrl yields for page p: the direct URL, or null when the
\* request failed
LoadSources(p) ==
  {StringSource(getDirectImageUrl("native", ConnectedStorage,
                                  Endpoint(LoadRef(p)), RefParams(LoadRef(p)))),
   NullSource}

\* Variant: the url is merged into the pageUrls of the render that started
\* the load
SetPageUrl_FromSnapshot(prev, snap, pageNumber, url) ==
  [k \in DOMAIN snap \cup {pageNumber} |->
     IF k = pageNumber THEN url ELSE snap[k]]
\* loadPageImage: setPageUrls(prev => ({ ...prev, [pageNumber]: url }))
\* (PageReader.tsx 86, VerticalReader.tsx 144)
SetPageUrl(prev, snap, pageNumber, url) ==
  [k \in DOMAIN prev \cup {pageNumber} |->
     IF k = pageNumber THEN url ELSE prev[k]]

NoLoads == [uri |-> [k \in {} |-> ""], started |-> <<>>, completed |-> <<>>]

\* loadPageImage(p) up to its await (PageReader.tsx 74-84): getPageUrl misses
\* the cache and is suspended
LoadPageImage(p) ==
  /\ \A t \in lTasks : t.page # p
  /\ p \notin DOMAIN pageUrls
  /\ lTasks' = lTasks \cup {[page |-> p, snap |-> pageUrls]}
  /\ lResolved' = [lResolved EXCEPT !.started = Append(@, p)]
  /\ UNCHANGED <<pageUrls, storeVars>>
  /\ UNCHANGED loaderFrame

\* getPageUrl resumes with image source src (mangaStore.ts 404-428) and
\* loadPageImage stores what it returned (PageReader.tsx 85-89)
LoadPageDone(t, src) ==
  LET ref == LoadRef(t.page)
      uri == ResolvedUri(src)
  IN  /\ t \in lTasks
      /\ lTasks' = lTasks \ {t}
      /\ IF uri = Null
           THEN /\ UNCHANGED <<imageCache, chapterPageUrls>>
                /\ lResolved' = [lResolved EXCEPT !.completed = Append(@, t.page)]
           ELSE /\ imageCache' = CacheWrite(imageCache, CacheKey(ref), uri, now)
                /\ chapterPageUrls' = PageUrlsWrite(chapterPageUrls, ref, uri)
                /\ lResolved' =
                     [lResolved EXCEPT
                        !.completed = Append(@, t.page),
                        !.uri = [k \in DOMAIN @ \cup {t.page} |->
                                   IF k = t.page THEN uri ELSE @[k]]]
      /\ pageUrls' = SetPageUrl(pageUrls, t.snap, t.page, uri)
      /\ UNCHANGED <<platform, storage, now, tasks, wire, nCalls, authPc, authSrv,
                     ev, dropped>>
      /\ UNCHANGED loaderFrame

LoaderIdle ==
  /\ lTasks = {}
  /\ pageUrls = [k \in {} |-> ""]
  /\ lResolved = NoLoads

---------------------------------------------------------------------------
(* The reading session: the screen's load of a chapter, request by request, *)
(* and the store's chapter data (mangaStore.ts 325-382, 439-446)            *)

\* The chapters opened from the series screen
SessionChapters == {1, 2}

\* The three requests of loadChapterData
Requests == {"details", "info", "progress"}

\* A loadChapterData call of screen instance inst for a chapter, with the
\* state of its three requests: "pending", "ok" or "fail"
NewLoad(inst, chapter) ==
  [inst |-> inst, chapter |-> chapter,
   details |-> "pending", info |-> "pending", progress |-> "pending"]

\* Variant: loadChapterData goes on as soon as the info request has settled
AllSettled_InfoOnly(l) == l.info # "pending"
\* await Promise.all([...]) ([chapterId].tsx 57-61): every request has settled
AllSettled(l) ==
  l.details # "pending" /\ l.info # "pending" /\ l.progress # "pending"

\* The state of a screen instance: isLoading, error, and the chapter whose
\* pages, totalPages and currentPage it holds (0 when none)
FreshScreen == [isLoading |-> TRUE, error |-> Null, pages |-> 0]

\* The store's currentChapterDetails, currentChapterInfo and
\* currentReadingProgress, each by the chapter it is about (0 for null), and
\* chapterError and isLoadingChapter
EmptyStore ==
  [details |-> 0, info |-> 0, progress |-> 0, chapterError |-> Null,
   isLoadingChapter |-> FALSE]

NoSessionEv == [type |-> "none", inst |-> 0, chapter |-> 0, stale |-> FALSE]

\* The store after request r of a load for a chapter has settled
\* (fetchChapterDetails, fetchChapterInfo, fetchReadingProgress)
StoreAfter(st, chapter, r, ok) ==
  CASE r = "details" ->
         IF ok THEN [st EXCEPT !.details = chapter, !.isLoadingChapter = FALSE]
         ELSE [st EXCEPT !.chapterError = DetailsError,
                         !.isLoadingChapter = FALSE]
    [] r = "info" ->
         IF ok THEN [st EXCEPT !.info = chapter, !.isLoadingChapter = FALSE]
         ELSE [st EXCEPT !.chapterError = InfoError, !.isLoadingChapter = FALSE]
    [] r = "progress" ->
         IF ok THEN [st EXCEPT !.progress = chapter] ELSE st

\* The chapterError effect of the mounted screen ([chapterId].tsx 114-118)
\* after the store changed from st to st2
ErrorEffect(sc, st, st2) ==
  IF st2.chapterError # Null /\ st2.chapterError # st.chapterError
  THEN [sc EXCEPT !.error = st2.chapterError] ELSE sc

\* loadChapterData past its await ([chapterId].tsx 63-89)
LoadContinuation(sc, l) ==
  IF l.info = "ok"
  THEN [sc EXCEPT !.pages = l.chapter, !.isLoading = FALSE]
  ELSE [sc EXCEPT !.error = LoadError, !.isLoading = FALSE]

\* The series screen opens the reader on chapter c ([chapterId].tsx 93-118):
\* a new screen instance mounts, its mount effect calls loadChapterData and
\* its chapterError effect runs with the chapterError it was rendered with
SessionMount(c) ==
  /\ mChapter = 0
  /\ mInst < MaxMounts
  /\ mInst' = mInst + 1
  /\ mChapter' = c
  /\ mLoads' = mLoads \cup {NewLoad(mInst + 1, c)}
  /\ mScreen' = [FreshScreen EXCEPT !.error = mStore.chapterError]
  /\ mStore' = [mStore EXCEPT !.chapterError = Null, !.isLoadingChapter = TRUE]
  /\ mEv' = [NoSessionEv EXCEPT !.type = "mount", !.inst = mInst + 1, !.chapter = c]
  /\ UNCHANGED sessionFrame

\* Request r of load l settles; when it is the last of the three,
\* loadChapterData goes on, and its state updates take effect if its screen
\* instance is still mounted
SessionSettle(l, r, ok) ==
  LET l2 == [l EXCEPT ![r] = IF ok THEN "ok" ELSE "fail"]
      st2 == StoreAfter(mStore, l.chapter, r, ok)
      mounted == mChapter # 0
      own == mounted /\ l.inst = mInst
      sc1 == IF mounted THEN ErrorEffect(mScreen, mStore, st2) ELSE mScreen
  IN  /\ l \in mLoads
      /\ l[r] = "pending"
      /\ mStore' = st2
      /\ mLoads' = IF AllSettled(l2) THEN mLoads \ {l}
                   ELSE (mLoads \ {l}) \cup {l2}
      /\ mScreen' = IF AllSettled(l2) /\ own THEN LoadContinuation(sc1, l2) ELSE sc1
      /\ mEv' = [type |-> "settle", inst |-> l.inst, chapter |-> l.chapter,
                 stale |-> ~own]
      /\ UNCHANGED <<mInst, mChapter>>
      /\ UNCHANGED sessionFrame

\* The user leaves the reader ([chapterId].tsx 50-52): the screen unmounts and
\* clearChapterData empties the store's chapter data
SessionUnmount ==
  /\ mChapter # 0
  /\ mChapter' = 0
  /\ mScreen' = FreshScreen
  /\ mStore' = [EmptyStore EXCEPT !.isLoadingChapter = mStore.isLoadingChapter]
  /\ mEv' = [NoSessionEv EXCEPT !.type = "unmount", !.inst = mInst]
  /\ UNCHANGED <<mInst, mLoads>>
  /\ UNCHANGED sessionFrame

SessionIdle ==
  /\ mInst = 0
  /\ mChapter = 0
  /\ mLoads = {}
  /\ mScreen = FreshScreen
  /\ mStore = EmptyStore
  /\ mEv = NoSessionEv

---------------------------------------------------------------------------
(* A page reader whose chapterId prop changes while it is mounted           *)
(* (PageReader.tsx 16-96, VerticalReader.tsx 34-154)                        *)

MaxViewPage == 2
ViewChapters == {1, 2}

\* What getPageUrl(chapterId, pageNumber) resolves to when the request succeeds
ViewUri(c, p) ==
  LET ref == [kind |-> "page", id |-> c, page |-> p]
  IN  ResolvedUri(StringSource(getDirectImageUrl("native", ConnectedStorage,
                                                 Endpoint(ref), RefParams(ref))))

\* The reader right after its first render for chapter c: useState({}) for
\* pageUrls; handleViewableItemsChanged is useRef(...).current, so it keeps the
\* loadPageImage of this render, with this chapterId
ViewMounted(c) ==
  [chapterId |-> c, first |-> c, pageUrls |-> [k \in {} |-> ""], loads |-> {}]

\* The parent renders the reader with another chapterId: no effect of the
\* reader depends on chapterId, so its state stays as it is
ViewSetChapter(c) ==
  /\ c # vw.chapterId
  /\ vw' = [vw EXCEPT !.chapterId = c]
  /\ UNCHANGED viewFrame

\* loadPageImage(p) up to its await, called by the effect on [isLoading, pages]
\* (the loadPageImage of the current render) or by the viewability handler
\* (the loadPageImage of the first render, whose pageUrls is {})
ViewLoadPageImage(p, fromHandler) ==
  LET c == IF fromHandler THEN vw.first ELSE vw.chapterId
      loaded == IF fromHandler THEN FALSE
                ELSE p \in DOMAIN vw.pageUrls /\ vw.pageUrls[p] # Null
  IN  /\ ~loaded
      /\ [chapter |-> c, page |-> p] \notin vw.loads
      /\ vw' = [vw EXCEPT !.loads = @ \cup {[chapter |-> c, page |-> p]}]
      /\ UNCHANGED viewFrame

\* getPageUrl returns and loadPageImage stores the url (PageReader.tsx 84-88)
ViewLoadDone(t, ok) ==
  LET url == IF ok THEN ViewUri(t.chapter, t.page) ELSE Null
  IN  /\ t \in vw.loads
      /\ vw' = [vw EXCEPT !.loads = @ \ {t},
                          !.pageUrls = SetPageUrl(@, @, t.page, url)]
      /\ UNCHANGED viewFrame

ViewIdle == vw = ViewMounted(1)

---------------------------------------------------------------------------
(* The auth store: connectWithOdpsUrl, disconnectServer, checkAuthentication *)
(* (store/authStore.ts 47-143, api/auth.ts 21-54, 141-212)                   *)

AuthServers == {1, 2}

\* The ODPS URLs entered: the URL of a server, with its API key or with a path
\* segment too short to be one
OdpsUrls == [server : AuthServers, apiKey : {"apikey", "short"}]
OdpsApiKey(odps) == IF odps.apiKey = "apikey" THEN ApiKeyOf(odps.server) ELSE "short"

\* api/auth.ts parseOdpsUrl: null when the last path segment has fewer than 8
\* characters
parseOdpsUrl(odps) ==
  IF Len(OdpsApiKey(odps)) < 8
    THEN [parsed |-> FALSE, baseUrl |-> "", apiKey |-> ""]
    ELSE [parsed |-> TRUE, baseUrl |-> BaseUrlOf(odps.server),
          apiKey |-> OdpsApiKey(odps)]

\* store/authStore.ts checkAuthentication: the three stored items are all there
checkAuthentication(st) ==
  /\ ~Falsy(getItem(st, JWT_TOKEN))
  /\ ~Falsy(getItem(st, API_KEY))
  /\ ~Falsy(getItem(st, BASE_URL))

AuthIdle ==
  au = [isAuthenticated |-> FALSE, pc |-> "idle", ev |-> "none",
        checked |-> FALSE, before |-> [k \in {} |-> ""], disconnected |-> FALSE]

\* connectWithOdpsUrl with a URL parseOdpsUrl rejects: connectToKavita returns
\* success: false before it stores anything (auth.ts 152-158, authStore.ts 67-74)
AuthConnectInvalid(odps) ==
  /\ authPc = "idle"
  /\ au.pc = "idle"
  /\ ~parseOdpsUrl(odps).parsed
  /\ au' = [au EXCEPT !.isAuthenticated = FALSE, !.ev = "connectFailed",
                      !.before = storage, !.disconnected = FALSE]
  /\ UNCHANGED storeVars
  /\ UNCHANGED authFrame

\* connectWithOdpsUrl with a URL that parses, up to the authentication request
AuthConnectStart(odps) ==
  /\ au.pc = "idle"
  /\ parseOdpsUrl(odps).parsed
  /\ ConnectStart(odps.server)
  /\ au' = [au EXCEPT !.ev = "other", !.before = storage, !.disconnected = FALSE]
  /\ UNCHANGED authFrame

\* refreshToken stored the token; connectToKavita goes on to getServerInfo
AuthConnectAuthenticated ==
  /\ ConnectAuthenticated
  /\ au' = [au EXCEPT !.pc = "serverInfo", !.ev = "other"]
  /\ UNCHANGED authFrame

\* refreshToken returned null: connectToKavita returns success: false
\* (auth.ts 165-170) and the store records the failure (authStore.ts 67-74)
AuthConnectRejected ==
  /\ ConnectFailed
  /\ au' = [au EXCEPT !.isAuthenticated = FALSE, !.ev = "connectFailed"]
  /\ UNCHANGED authFrame

\* getServerInfo returned the server's information (ok) or null
\* (auth.ts 173-187, authStore.ts 55-74)
AuthServerInfo(ok) ==
  /\ au.pc = "serverInfo"
  /\ au' = [au EXCEPT !.pc = "idle", !.isAuthenticated = ok,
                      !.ev = IF ok THEN "connected" ELSE "connectFailed"]
  /\ UNCHANGED storeVars
  /\ UNCHANGED authFrame

\* disconnectServer: logout removes the token, then the API key
AuthLogoutToken ==
  /\ au.pc = "idle"
  /\ LogoutToken
  /\ au' = [au EXCEPT !.ev = "other"]
  /\ UNCHANGED authFrame

AuthLogoutApiKey ==
  /\ LogoutApiKey
  /\ au' = [au EXCEPT !.ev = "other"]
  /\ UNCHANGED authFrame

\* logout removes the base URL and returns; disconnectServer clears the auth
\* state (authStore.ts 93-103)
AuthLogoutBaseUrl ==
  /\ LogoutBaseUrl
  /\ au' = [au EXCEPT !.isAuthenticated = FALSE, !.ev = "disconnected",
                      !.disconnected = TRUE]
  /\ UNCHANGED authFrame

\* checkAuthentication (authStore.ts 120-143)
AuthCheck ==
  /\ au.pc = "idle"
  /\ au' = [au EXCEPT !.ev = "check", !.checked = checkAuthentication(storage),
                      !.isAuthenticated = checkAuthentication(storage) \/ @]
  /\ UNCHANGED storeVars
  /\ UNCHANGED authFrame

\* a makeRequest call
AuthRequest(c) ==
  /\ JsonRequest(c)
  /\ au' = [au EXCEPT !.ev = "request"]
  /\ UNCHANGED authFrame

---------------------------------------------------------------------------
(* The loading flags: fetchAllSeries, fetchSeriesById (mangaStore.ts 147-192) *)
(* and connectWithOdpsUrl (authStore.ts 47-85), call by call                  *)

MaxFlagCalls == 2

\* The calls, by the flag and the error field they use: isLoading / error,
\* isLoadingSeries / seriesError of the manga store, isLoading / error of the
\* auth store
FlagOps == {"fetchAllSeries", "fetchSeriesById", "connectWithOdpsUrl"}

\* The await a call starts at: connectToKavita returns without a request when
\* the URL does not parse
FirstStep(op, valid) ==
  CASE op = "fetchAllSeries" -> "getAllSeries"
    [] op = "fetchSeriesById" -> "getSeriesById"
    [] op = "connectWithOdpsUrl" -> IF valid THEN "refreshToken" ELSE "invalidUrl"

\* How the await of a step can end: the request fails, or it succeeds; the
\* series may come with its volumes, without them, or as an empty body, whose
\* volumes cannot be read
StepOutcomes(step) ==
  CASE step = "getSeriesById" -> {"ok", "noVolumes", "empty", "fail"}
    [] step = "invalidUrl" -> {"fail"}
    [] OTHER -> {"ok", "fail"}

\* The step a call goes on to after an await ended with outcome o, "done" when
\* it returns
NextStep(step, o) ==
  CASE step = "getSeriesById" /\ o = "noVolumes" -> "getVolumes"
    [] step = "refreshToken" /\ o = "ok" -> "getServerInfo"
    [] OTHER -> "done"

Succeeded(o) == o \in {"ok", "noVolumes"}

FlagError(op) ==
  CASE op = "fetchAllSeries" -> "Failed to fetch manga series"
    [] op = "fetchSeriesById" -> "Failed to fetch series"
    [] op = "connectWithOdpsUrl" -> "Connection failed"

\* Variant: the catch block sets the error and leaves the flag
FlagsReturned_KeepsLoading(st, op, ok) ==
  IF ok THEN [st EXCEPT !.loading[op] = FALSE,
                        !.error[op] = IF op = "connectWithOdpsUrl" THEN Null ELSE @]
  ELSE [st EXCEPT !.error[op] = FlagError(op)]
\* The store when a call returns: set({..., isLoading: false}) on success
\* (connectWithOdpsUrl also sets error: null), set({isLoading: false, error})
\* on failure
FlagsReturned(st, op, ok) ==
  IF ok THEN [st EXCEPT !.loading[op] = FALSE,
                        !.error[op] = IF op = "connectWithOdpsUrl" THEN Null ELSE @]
  ELSE [st EXCEPT !.loading[op] = FALSE, !.error[op] = FlagError(op)]

NoFlagEv == [type |-> "none", id |-> 0, op |-> "", ok |-> FALSE, step |-> ""]

FlagsIdle ==
  fl = [loading |-> [op \in FlagOps |-> FALSE],
        error |-> [op \in FlagOps |-> Null],
        calls |-> {}, n |-> 0, ev |-> NoFlagEv]

\* A call starts: set({ isLoading: true, error: null }) and its first await
FlagCall(op, valid) ==
  /\ fl.n < MaxFlagCalls
  /\ fl' = [fl EXCEPT !.loading[op] = TRUE, !.error[op] = Null,
                      !.n = @ + 1,
                      !.calls = @ \cup {[id |-> fl.n + 1, op |-> op,
                                         step |-> FirstStep(op, valid)]},
                      !.ev = [NoFlagEv EXCEPT !.type = "call", !.id = fl.n + 1,
                                              !.op = op]]
  /\ UNCHANGED flagFrame

\* The await of call c ends with outcome o: the call goes on to its next
\* await, or returns and sets its flag and error field
FlagSettle(c, o) ==
  LET next == IF Succeeded(o) THEN NextStep(c.step, o) ELSE "done"
      st == [loading |-> fl.loading, error |-> fl.error]
      st2 == IF next = "done" THEN FlagsReturned(st, c.op, Succeeded(o)) ELSE st
  IN  /\ c \in fl.calls
      /\ o \in StepOutcomes(c.step)
      /\ fl' = [fl EXCEPT
                  !.loading = st2.loading,
                  !.error = st2.error,
                  !.calls = IF next = "done" THEN @ \ {c}
                            ELSE (@ \ {c}) \cup {[c EXCEPT !.step = next]},
                  !.ev = [type |-> IF next = "done" THEN "return" ELSE "step",
                          id |-> c.id, op |-> c.op, ok |-> Succeeded(o),
                          step |-> c.step]]
      /\ UNCHANGED flagFrame

\* Call number i takes a step
FlagSettleOf(i) ==
  \E c \in fl.calls : \E o \in StepOutcomes(c.step) : c.id = i /\ FlagSettle(c, o)

---------------------------------------------------------------------------
(* The proxies' POST /api-proxy: backend/nginx-proxy.js 29-129, the proxy of *)
(* development builds (port 3031), and functions/index.js 29-140             *)

Proxies == {"nginx-proxy", "functions"}

\* The targets the client sends: api/manga.ts 224-449, api/auth.ts 74, 113
ClientTargets ==
  {"Series/all-v2", "Series/1", "Series/volumes?seriesId=1",
   "Reader/chapter-page-list?chapterId=1", "Reader/mark-chapter-read?chapterId=1",
   "Reader/progress", "image/series-cover", "image/volume-cover",
   "image/chapter-cover", "reader/image", "chapter", "reader/chapter-info",
   "reader/get-progress", "Plugin/authenticate", "server/server-info"}

\* The statuses the Kavita server answers with
UpstreamStatuses == {200, 401, 404, 500}

\* backend/nginx-proxy.js 75 and functions/index.js 72-77: the condition of
\* the binary branch
proxyIsImage(proxy, target) ==
  IF proxy = "nginx-proxy"
    THEN Includes(target, "/image/") \/ Includes(target, "/cover/")
    ELSE \/ Includes(target, "/image")
         \/ Includes(target, "/cover/")
         \/ StartsWith(target, "image/")
         \/ StartsWith(target, "cover/")

\* The answer of the proxy to a request for a target the server answers with
\* a status: the raw bytes from the binary branch, res.json(...) otherwise
ProxyAnswer(proxy, target, status) ==
  IF status # 200
    THEN [status |-> IF proxy = "functions" /\ proxyIsImage(proxy, target)
                       THEN 500 ELSE status,
          body |-> "json", branch |-> IF proxyIsImage(proxy, target)
                                        THEN "binary" ELSE "json"]
  ELSE IF proxyIsImage(proxy, target)
    THEN [status |-> 200, body |-> "bytes", branch |-> "binary"]
    ELSE [status |-> 200, body |-> "json", branch |-> "json"]

NoAnswer == [status |-> 0, body |-> "", branch |-> ""]

ProxyIdle ==
  px = [proxy |-> "nginx-proxy", target |-> "chapter", status |-> 200,
        clientImage |-> FALSE, answer |-> NoAnswer]

\* The proxy handles the request
ProxyHandle ==
  /\ px.answer = NoAnswer
  /\ px' = [px EXCEPT !.answer = ProxyAnswer(px.proxy, px.target, px.status)]
  /\ UNCHANGED proxyFrame

---------------------------------------------------------------------------
(* MangaImage: the effect that loads the image of its source               *)

MaxImageLoads == 3

\* The sources a MangaImage is given: a url, or the id of a series, a volume
\* or a chapter with the type that says which
ImageSources ==
  [type : {"series", "volume", "chapter"}, id : {1, 2}, url : {""}]
    \cup [type : {"series"}, id : {0}, url : {"https://img/a", "https://img/b"}]

\* What get*CoverUrl(source) resolves to when the request succeeds
CoverUri(src) ==
  LET ref == [kind |-> src.type, id |-> src.id, page |-> 0]
  IN  ResolvedUri(StringSource(getDirectImageUrl("native", ConnectedStorage,
                                                 Endpoint(ref), RefParams(ref))))

\* Variant: loadImage applies its result without looking at its mounted flag
ImageApplied_Unguarded(st, l, url) ==
  [st EXCEPT !.imageUrl = url, !.isLoading = FALSE]
\* loadImage past its await: if (mounted) { setImageUrl(finalImageUrl);
\* setIsLoading(false) }, with the mounted flag of the effect run that
\* started it
ImageApplied(st, l, url) ==
  IF l.mounted THEN [st EXCEPT !.imageUrl = url, !.isLoading = FALSE] ELSE st

\* The cleanup of the effect: mounted = false for the run it belongs to
ImageCleanup(loads) == {[l EXCEPT !.mounted = FALSE] : l \in loads}

NoImageEv == [type |-> "none", id |-> 0, stale |-> FALSE]

ImageIdle ==
  img = [rendered |-> FALSE, run |-> 0, source |-> [type |-> "series", id |-> 0, url |-> ""],
         imageUrl |-> Null, isLoading |-> TRUE, error |-> FALSE,
         loads |-> {}, ev |-> NoImageEv]

\* The component mounts with a source, or its source, type or cacheKey
\* changes: the cleanup of the previous run, then the effect, which runs
\* loadImage up to its await; a url is applied at once.  A component that
\* mounts starts with useState(null) for its imageUrl
ImageRender(src) ==
  LET st == [img EXCEPT !.rendered = TRUE, !.run = @ + 1, !.source = src,
                        !.imageUrl = IF img.rendered THEN @ ELSE Null,
                        !.isLoading = TRUE, !.error = FALSE,
                        !.loads = ImageCleanup(@),
                        !.ev = [NoImageEv EXCEPT !.type = "render", !.id = img.run + 1]]
      l == [id |-> img.run + 1, source |-> src, mounted |-> TRUE]
  IN  /\ img.run < MaxImageLoads
      /\ img.rendered => src # img.source
      /\ img' = IF src.url # ""
                  THEN ImageApplied(st, l, src.url)
                  ELSE [st EXCEPT !.loads = @ \cup {l}]
      /\ UNCHANGED imageFrame

\* The component unmounts
ImageUnmount ==
  /\ img.rendered
  /\ img' = [img EXCEPT !.rendered = FALSE, !.loads = ImageCleanup(@),
                        !.ev = [NoImageEv EXCEPT !.type = "unmount"]]
  /\ UNCHANGED imageFrame

\* get*CoverUrl returns to load l: the url, or null when the image could not
\* be resolved
ImageLoaded(l, ok) ==
  LET url == IF ok THEN CoverUri(l.source) ELSE Null
      st == [img EXCEPT !.loads = @ \ {l},
                        !.ev = [type |-> "loaded", id |-> l.id,
                                stale |-> ~img.rendered \/ l.id # img.run]]
  IN  /\ l \in img.loads
      /\ img' = ImageApplied(st, l, url)
      /\ UNCHANGED imageFrame

---------------------------------------------------------------------------
(* Specifications *)

StoreInit ==
  /\ storage = [k \in {} |-> ""]
  /\ now = 0
  /\ imageCache = [k \in {} |-> [url |-> "", timestamp |-> 0]]
  /\ chapterPageUrls = [k \in {} |-> ""]
  /\ tasks = EmptyBag
  /\ wire = EmptyBag
  /\ nCalls = 0
  /\ authPc = "idle"
  /\ authSrv = 0
  /\ ev = NoEv
  /\ dropped = {}

PreloadIdle ==
  /\ pMode = "page"
  /\ pTotal = 1
  /\ pCur = 1
  /\ pScheduled = <<>>
  /\ pDone = FALSE

\* The app right after installation: nothing stored, nothing cached
Init ==
  /\ platform \in Platforms
  /\ StoreInit
  /\ PreloadIdle
  /\ PipelineIdle
  /\ GatewayIdle
  /\ ReaderIdle
  /\ KeysIdle
  /\ LoaderIdle
  /\ SessionIdle
  /\ ViewIdle
  /\ AuthIdle
  /\ FlagsIdle
  /\ ProxyIdle
  /\ ImageIdle

Next ==
  \/ \E ref \in Refs : Resolve(ref) /\ UNCHANGED storeFrame
  \/ \E t \in BagToSet(tasks) : Fetch(t) /\ UNCHANGED storeFrame
  \/ \E c \in JsonCalls : JsonRequest(c) /\ UNCHANGED storeFrame
  \/ \E t \in BagToSet(tasks), status \in Statuses :
       Respond(t, status) /\ UNCHANGED storeFrame
  \/ ClearCache /\ UNCHANGED storeFrame
  \/ Tick /\ UNCHANGED storeFrame
  \/ \E s \in Servers : ConnectStart(s) /\ UNCHANGED storeFrame
  \/ ConnectAuthenticated /\ UNCHANGED storeFrame
  \/ ConnectFailed /\ UNCHANGED storeFrame
  \/ LogoutToken /\ UNCHANGED storeFrame
  \/ LogoutApiKey /\ UNCHANGED storeFrame
  \/ LogoutBaseUrl /\ UNCHANGED storeFrame

Spec == Init /\ [][Next]_vars

\* The readers' preloading alone: every reader mode, chapter length and current page
InitPreload ==
  /\ platform = "native"
  /\ StoreInit
  /\ pMode \in {"page", "vertical"}
  /\ pTotal \in 1..MaxTotal
  /\ pCur \in 0..(pTotal + 1)
  /\ pScheduled = <<>>
  /\ pDone = FALSE
  /\ PipelineIdle
  /\ GatewayIdle
  /\ ReaderIdle
  /\ KeysIdle
  /\ LoaderIdle
  /\ SessionIdle
  /\ ViewIdle
  /\ AuthIdle
  /\ FlagsIdle
  /\ ProxyIdle
  /\ ImageIdle

NextPreload ==
  \/ PagePreload
  \/ VerticalPreload
  \/ \E p \in 0..(pTotal + 1) : PageChange(p)

SpecPreload == InitPreload /\ [][NextPreload]_vars

\* The resolve operations past the cache check: every reference, image source
\* and outcome
InitPipeline ==
  /\ platform \in Platforms
  /\ StoreInit
  /\ PreloadIdle
  /\ GatewayIdle
  /\ qRef \in Refs
  /\ qSrc \in PipelineSources
  /\ qFetchThrows \in BOOLEAN
  /\ qDecodeThrows \in BOOLEAN
  /\ qOut = Pending
  /\ ReaderIdle
  /\ KeysIdle
  /\ LoaderIdle
  /\ SessionIdle
  /\ ViewIdle
  /\ AuthIdle
  /\ FlagsIdle
  /\ ProxyIdle
  /\ ImageIdle

NextPipeline ==
  \/ PipelineRun
  \/ \E ref \in Refs, src \in PipelineSources, ft \in BOOLEAN, dt \in BOOLEAN :
       PipelineCall(ref, src, ft, dt)

SpecPipeline == InitPipeline /\ [][NextPipeline]_vars

\* The request gateway: every platform, stored credentials and call
InitGateway ==
  /\ platform \in Platforms
  /\ storage \in GatewayStorages
  /\ now = 0
  /\ imageCache = [k \in {} |-> [url |-> "", timestamp |-> 0]]
  /\ chapterPageUrls = [k \in {} |-> ""]
  /\ tasks = EmptyBag
  /\ wire = EmptyBag
  /\ nCalls = 0
  /\ authPc = "idle"
  /\ authSrv = 0
  /\ ev = NoEv
  /\ dropped = {}
  /\ PreloadIdle
  /\ PipelineIdle
  /\ gIn \in GatewayCalls(storage)
  /\ gOut = NotSent
  /\ ReaderIdle
  /\ proxyHealth \in ProxyHealths
  /\ MayAuthenticate(platform, proxyHealth, gIn)
  /\ KeysIdle
  /\ LoaderIdle
  /\ SessionIdle
  /\ ViewIdle
  /\ AuthIdle
  /\ FlagsIdle
  /\ ProxyIdle
  /\ ImageIdle

NextGateway ==
  \/ GatewaySend
  \/ \E up \in BOOLEAN : CheckProxy(up)
  \/ \E c \in GatewayCalls(storage) : GatewayNext(c)

SpecGateway == InitGateway /\ [][NextGateway]_vars

\* The reader screen: every chapter id, outcome of the three requests, scroll
\* and button press
InitReader ==
  /\ platform = "native"
  /\ StoreInit
  /\ PreloadIdle
  /\ PipelineIdle
  /\ GatewayIdle
  /\ ReaderIdle
  /\ KeysIdle
  /\ LoaderIdle
  /\ SessionIdle
  /\ ViewIdle
  /\ AuthIdle
  /\ FlagsIdle
  /\ ProxyIdle
  /\ ImageIdle

NextReader ==
  \/ \E valid \in BOOLEAN : Mount(valid) /\ UNCHANGED readerFrame
  \/ \E o \in LoadOutcomes : LoadDone(o) /\ UNCHANGED readerFrame
  \/ Retry /\ UNCHANGED readerFrame
  \/ LoadStart /\ UNCHANGED readerFrame
  \/ ToggleReadingMode /\ UNCHANGED readerFrame
  \/ \E p \in 0..screen.totalPages : Scroll(p) /\ UNCHANGED readerFrame
  \/ Forward /\ UNCHANGED readerFrame
  \/ Back /\ UNCHANGED readerFrame
  \/ \E t \in timers : TimerFire(t) /\ UNCHANGED readerFrame
  \/ ReaderTick /\ UNCHANGED readerFrame

SpecReader == InitReader /\ [][NextReader]_vars

\* The cache keys of every pair of content references
InitKeys ==
  /\ platform = "native"
  /\ StoreInit
  /\ PreloadIdle
  /\ PipelineIdle
  /\ GatewayIdle
  /\ ReaderIdle
  /\ kRefs \in WideRefs \X WideRefs
  /\ kKeys = <<>>
  /\ kHit = FALSE
  /\ LoaderIdle
  /\ SessionIdle
  /\ ViewIdle
  /\ AuthIdle
  /\ FlagsIdle
  /\ ProxyIdle
  /\ ImageIdle

NextKeys == KeysCompute

SpecKeys == InitKeys /\ [][NextKeys]_vars

\* The page loads of one chapter on a connected device, started and completed
\* in every order
InitLoader ==
  /\ platform = "native"
  /\ storage = ConnectedStorage
  /\ now = 0
  /\ imageCache = [k \in {} |-> [url |-> "", timestamp |-> 0]]
  /\ chapterPageUrls = [k \in {} |-> ""]
  /\ tasks = EmptyBag
  /\ wire = EmptyBag
  /\ nCalls = 0
  /\ authPc = "idle"
  /\ authSrv = 0
  /\ ev = NoEv
  /\ dropped = {}
  /\ PreloadIdle
  /\ PipelineIdle
  /\ GatewayIdle
  /\ ReaderIdle
  /\ KeysIdle
  /\ LoaderIdle
  /\ SessionIdle
  /\ ViewIdle
  /\ AuthIdle
  /\ FlagsIdle
  /\ ProxyIdle
  /\ ImageIdle

NextLoader ==
  \/ \E p \in 1..MaxLoadPage : LoadPageImage(p)
  \/ \E t \in lTasks : \E src \in LoadSources(t.page) : LoadPageDone(t, src)

SpecLoader == InitLoader /\ [][NextLoader]_vars

\* The reading sessions: the reader opened, left and opened again while the
\* requests of its loads settle in every order
InitSession ==
  /\ platform = "native"
  /\ StoreInit
  /\ PreloadIdle
  /\ PipelineIdle
  /\ GatewayIdle
  /\ ReaderIdle
  /\ KeysIdle
  /\ LoaderIdle
  /\ SessionIdle
  /\ ViewIdle
  /\ AuthIdle
  /\ FlagsIdle
  /\ ProxyIdle
  /\ ImageIdle

NextSession ==
  \/ \E c \in SessionChapters : SessionMount(c)
  \/ \E l \in mLoads, r \in Requests, ok \in BOOLEAN : SessionSettle(l, r, ok)
  \/ SessionUnmount

SpecSession == InitSession /\ [][NextSession]_vars

\* A page reader mounted for one chapter and then given another, its loads
\* completing in every order
InitView ==
  /\ platform = "native"
  /\ StoreInit
  /\ PreloadIdle
  /\ PipelineIdle
  /\ GatewayIdle
  /\ ReaderIdle
  /\ KeysIdle
  /\ LoaderIdle
  /\ SessionIdle
  /\ \E c \in ViewChapters : vw = ViewMounted(c)
  /\ AuthIdle
  /\ FlagsIdle
  /\ ProxyIdle
  /\ ImageIdle

NextView ==
  \/ \E c \in ViewChapters : ViewSetChapter(c)
  \/ \E p \in 1..MaxViewPage, h \in BOOLEAN : ViewLoadPageImage(p, h)
  \/ \E t \in vw.loads, ok \in BOOLEAN : ViewLoadDone(t, ok)

SpecView == InitView /\ [][NextView]_vars

\* Connecting, disconnecting and checking the authentication, one flow at a
\* time, with makeRequest calls in between
InitAuth ==
  /\ platform \in Platforms
  /\ StoreInit
  /\ PreloadIdle
  /\ PipelineIdle
  /\ GatewayIdle
  /\ ReaderIdle
  /\ KeysIdle
  /\ LoaderIdle
  /\ SessionIdle
  /\ ViewIdle
  /\ AuthIdle
  /\ FlagsIdle
  /\ ProxyIdle
  /\ ImageIdle

NextAuth ==
  \/ \E odps \in OdpsUrls : AuthConnectInvalid(odps)
  \/ \E odps \in OdpsUrls : AuthConnectStart(odps)
  \/ AuthConnectAuthenticated
  \/ AuthConnectRejected
  \/ \E ok \in BOOLEAN : AuthServerInfo(ok)
  \/ AuthLogoutToken
  \/ AuthLogoutApiKey
  \/ AuthLogoutBaseUrl
  \/ AuthCheck
  \/ \E c \in JsonCalls : AuthRequest(c)

SpecAuth == InitAuth /\ [][NextAuth]_vars

\* Calls of fetchAllSeries, fetchSeriesById and connectWithOdpsUrl, overlapping
\* in every way; every request is answered or fails in the end (the native
\* client has a timeout of 10 s, the browser gives up on a dead connection)
InitFlags ==
  /\ platform = "native"
  /\ StoreInit
  /\ PreloadIdle
  /\ PipelineIdle
  /\ GatewayIdle
  /\ ReaderIdle
  /\ KeysIdle
  /\ LoaderIdle
  /\ SessionIdle
  /\ ViewIdle
  /\ AuthIdle
  /\ FlagsIdle
  /\ ProxyIdle
  /\ ImageIdle

NextFlags ==
  \/ \E op \in FlagOps, valid \in BOOLEAN : FlagCall(op, valid)
  \/ \E i \in 1..MaxFlagCalls : FlagSettleOf(i)

SpecFlags ==
  /\ InitFlags
  /\ [][NextFlags]_vars
  /\ \A i \in 1..MaxFlagCalls : WF_vars(FlagSettleOf(i))

\* One request of the web client to either proxy, for every target the client
\* uses and every status the server answers with
InitProxy ==
  /\ platform = "web"
  /\ StoreInit
  /\ PreloadIdle
  /\ PipelineIdle
  /\ GatewayIdle
  /\ ReaderIdle
  /\ KeysIdle
  /\ LoaderIdle
  /\ SessionIdle
  /\ ViewIdle
  /\ AuthIdle
  /\ FlagsIdle
  /\ \E p \in Proxies, t \in ClientTargets, s \in UpstreamStatuses :
       px = [proxy |-> p, target |-> t, status |-> s,
             clientImage |-> isImageEndpoint(t), answer |-> NoAnswer]
  /\ ImageIdle

NextProxy == ProxyHandle

SpecProxy == InitProxy /\ [][NextProxy]_vars

\* A MangaImage mounted, given other sources and unmounted while its loads
\* complete in every order
InitImage ==
  /\ platform = "native"
  /\ StoreInit
  /\ PreloadIdle
  /\ PipelineIdle
  /\ GatewayIdle
  /\ ReaderIdle
  /\ KeysIdle
  /\ LoaderIdle
  /\ SessionIdle
  /\ ViewIdle
  /\ AuthIdle
  /\ FlagsIdle
  /\ ProxyIdle
  /\ ImageIdle

NextImage ==
  \/ \E src \in ImageSources : ImageRender(src)
  \/ ImageUnmount
  \/ \E l \in img.loads, ok \in BOOLEAN : ImageLoaded(l, ok)

SpecImage == InitImage /\ [][NextImage]_vars

\* The reader screen opened once, read and left while progress timers are
\* pending
NextReaderLeave ==
  \/ rEv.type = "none" /\ Mount(TRUE) /\ UNCHANGED readerFrame
  \/ \E o \in LoadOutcomes : screen.mounted /\ LoadDone(o) /\ UNCHANGED readerFrame
  \/ \E p \in 0..screen.totalPages : Scroll(p) /\ UNCHANGED readerFrame
  \/ Forward /\ UNCHANGED readerFrame
  \/ Back /\ UNCHANGED readerFrame
  \/ \E t \in timers : TimerFire(t) /\ UNCHANGED readerFrame
  \/ ReaderTick /\ UNCHANGED readerFrame
  \/ ReaderUnmount /\ UNCHANGED readerFrame

SpecReaderLeave == InitReader /\ [][NextReaderLeave]_vars

---------------------------------------------------------------------------
(* Properties *)

\* The resolve calls for a key that are in flight (called, missed the cache, not
\* yet returned)
InFlightIn(bag, key) ==
  LET S == {t \in BagToSet(bag) : t.kind = "image" /\ CacheKey(t.ref) = key}
  IN  BagCardinality([t \in S |-> CopiesIn(t, bag)])
InFlightSet(key) ==
  {t \in BagToSet(tasks) : t.kind = "image" /\ CacheKey(t.ref) = key}
InFlight(key) == InFlightIn(tasks, key)

\* The elements of a sequence
Range(seq) == {seq[i] : i \in DOMAIN seq}

\* C1: a resolve call never returns a cached value whose entry is CACHE_EXPIRY
\* (10 minutes) old or older; finding such an entry, the call does not return it
\* but goes on to a fresh resolution.
C1_StaleEntryNeverReturned ==
  ev.type = "call" =>
    /\ ev.hit => ev.entry = "fresh"
    /\ ev.entry = "stale" =>
         /\ ~ev.hit
         /\ ~ev.done
         /\ \E t \in InFlightSet(ev.key) : t.pc = "fetch"

\* C1, its case: a call finds an entry written CACHE_EXPIRY ago and misses
C1_Witness ==
  /\ ev.type = "call"
  /\ ev.entry = "stale"
  /\ ~ev.hit
  /\ now - imageCache[ev.key].timestamp = CACHE_EXPIRY

\* C2, as stated, for an app connected to its server and two calls made one
\* right after the other (so within the CACHE_EXPIRY window and with no
\* clearCache in between): the second of two resolve calls for the same
\* reference is a cache hit, so that the two calls start at most one network or
\* decode operation.
C2_SecondCallIsHit ==
  [][/\ ev.type = "call"
     /\ ev'.type = "call"
     /\ ev'.key = ev.key
     /\ ~Falsy(getItem(storage, BASE_URL))
     /\ ~Falsy(getItem(storage, API_KEY))
     => ev'.hit
    ]_vars

\* The requests for the image of a key that are sent and not yet answered
NetOps(key) ==
  LET S == {t \in InFlightSet(key) : t.pc = "net"}
  IN  BagCardinality([t \in S |-> CopiesIn(t, tasks)])

\* C3, as stated: for every cache key at most one resolution is in flight at any
\* time, so that no second network operation for a key is started while an
\* earlier one for it has not completed.
C3_OneInFlightPerKey ==
  \A key \in Keys : NetOps(key) <= 1

\* C4: a resolution that fails (it returns null) leaves the image cache and
\* chapterPageUrls as they were; it starts no further attempt (the failed call
\* leaves and no call takes its place); a cached value is never null or empty,
\* and a call that finds no entry for its key misses and resolves anew.
C4_FailureNotMemoized ==
  [][/\ ev'.done /\ ev'.type \in {"fetch", "respond"} /\ Falsy(ev'.value) =>
          /\ imageCache' = imageCache
          /\ chapterPageUrls' = chapterPageUrls
          /\ BagCardinality(tasks') = BagCardinality(tasks) - 1
          /\ wire' \sqsubseteq wire
     /\ \A key \in DOMAIN imageCache' : ~Falsy(imageCache'[key].url)
     /\ ev'.type = "call" /\ ev'.key \notin DOMAIN imageCache =>
          /\ ~ev'.hit
          /\ ~ev'.done
          /\ InFlightIn(tasks', ev'.key) = InFlightIn(tasks, ev'.key) + 1
    ]_vars

\* C4, its case: the server answered a resolve call with an error, the call
\* returned null and the cache holds nothing for its key
C4_Witness ==
  /\ ev.type = "respond"
  /\ ev.status = 500
  /\ ev.done
  /\ ev.key # ""
  /\ Falsy(ev.value)
  /\ ev.key \notin DOMAIN imageCache

\* C5: in the page reader, preloadAdjacentPages for current page p of a chapter
\* of n pages hands to loadPageImage exactly the pages of {p+1, p+2, p-1} that
\* lie in 1..n, each once: <<6, 7, 4>> for p = 5, n = 20 and <<19>> for p = 20,
\* n = 20; page 0 and page n+1 are never handed over.
C5_PagePreloadSet ==
  pDone /\ pMode = "page" =>
    /\ Range(pScheduled) = {pCur + 1, pCur + 2, pCur - 1} \cap (1..pTotal)
    /\ Len(pScheduled) = Cardinality(Range(pScheduled))
    /\ pCur = 5 /\ pTotal = 20 => pScheduled = <<6, 7, 4>>
    /\ pCur = 20 /\ pTotal = 20 => pScheduled = <<19>>

\* C5, its case: preload(20, 20) has run, page 21 and 22 filtered out
C5_Witness ==
  /\ pDone
  /\ pMode = "page"
  /\ pCur = 20
  /\ pTotal = 20
  /\ pScheduled = <<19>>

\* C6: in the vertical reader, preloadAdjacentPages for current page p of a
\* chapter of n pages hands to loadPageImage exactly the pages of {p+1, p+2,
\* p+3} that lie in 1..n, each once, and never a page before p.
C6_VerticalPreloadSet ==
  pDone /\ pMode = "vertical" =>
    /\ Range(pScheduled) = {pCur + 1, pCur + 2, pCur + 3} \cap (1..pTotal)
    /\ Len(pScheduled) = Cardinality(Range(pScheduled))
    /\ \A q \in Range(pScheduled) : q > pCur

\* C6, its case: the preload for page 5 of 20 has run in the vertical reader
C6_Witness ==
  /\ pDone
  /\ pMode = "vertical"
  /\ pCur = 5
  /\ pTotal = 20
  /\ pScheduled = <<6, 7, 8>>

\* C7: right after clearCache the image cache holds no key and chapterPageUrls
\* is empty; a key clearCache removed is absent until a resolution writes it
\* again, and a call for it misses and resolves anew.
C7_ClearCacheEmpties ==
  /\ ev.type = "clearCache" =>
       DOMAIN imageCache = {} /\ DOMAIN chapterPageUrls = {}
  /\ dropped \cap DOMAIN imageCache = {}
  /\ ev.type = "call" /\ ev.key \in dropped =>
       /\ ~ev.hit
       /\ ~ev.done
       /\ \E t \in InFlightSet(ev.key) : t.pc = "fetch"

\* C7, its case: a key cached and then removed by clearCache is called again at
\* the time of the clear, and the call misses
C7_Witness ==
  /\ ev.type = "call"
  /\ ev.key \in dropped
  /\ ~ev.hit
  /\ now = 0

\* C8, as stated: once disconnectServer has completed, the image cache holds no
\* entries.
C8_LogoutClearsCache ==
  ev.type = "disconnected" => DOMAIN imageCache = {}

\* C9: a makeRequest call made while no base URL is stored throws "Server URL
\* not configured", on the web and on native platforms, and sends no request.
C9_NoBaseUrlNoRequest ==
  [][ev'.mr /\ Falsy(getItem(storage, BASE_URL)) =>
       /\ ev'.err = ErrNoServerUrl
       /\ ev'.done
       /\ wire' = wire
       /\ BagCardinality(tasks') <= BagCardinality(tasks)
    ]_vars

\* C9, its case: makeRequest has thrown the configuration error on a native
\* platform, with nothing on the wire
C9_Witness ==
  /\ ev.mr
  /\ ev.err = ErrNoServerUrl
  /\ platform = "native"
  /\ Falsy(getItem(storage, BASE_URL))
  /\ wire = EmptyBag

\* C10, as stated: a resolve call made while no base URL is stored returns null.
C10_NoBaseUrlResolvesNull ==
  ev.type \in {"call", "fetch"} /\ ev.done /\ Falsy(getItem(storage, BASE_URL)) =>
    ev.value = Null

\* C11: on the web, when the proxy answers the request of a resolve call with a
\* status other than 200, the error makeRequest throws names that status and
\* the resolve call returns null.
C11_ProxyErrorResolvesNull ==
  platform = "web" /\ ev.type = "respond" /\ ev.key # "" /\ ev.status # 200 =>
    /\ StartsWith(ev.err, "API error: ")
    /\ Includes(ev.err, ToString(ev.status))
    /\ ev.done
    /\ ev.value = Null

\* C11, its case: the proxy answered a page request with 500
C11_Witness ==
  /\ platform = "web"
  /\ ev.type = "respond"
  /\ ev.key = "page_1_1"
  /\ ev.status = 500
  /\ ev.err = "API error: 500"
  /\ ev.value = Null

\* C13, as stated: on the web, a resolve call that reaches its fetch while no API
\* key is stored sends no request to the proxy and returns null.
C13_WebNeedsApiKey ==
  [][/\ platform = "web"
     /\ ev'.type = "fetch"
     /\ Falsy(getItem(storage, API_KEY))
     => /\ wire' = wire
        /\ ev'.done
        /\ ev'.value = Null
    ]_vars

\* The reference a cache key stands for
RefOf(key) == CHOOSE ref \in Refs : CacheKey(ref) = key

\* C14: on native platforms a resolve call sends no request; with a base URL and
\* an API key stored it returns {baseUrl}/api/{endpoint}?{params}&apiKey={apiKey}
\* and caches it, and with either of them missing it returns null and leaves the
\* cache as it was.
C14_NativeDirectUrl ==
  [][platform = "native" /\ ev'.type = "fetch" =>
       /\ wire' = wire
       /\ ev'.done
       /\ IF Falsy(getItem(storage, BASE_URL)) \/ Falsy(getItem(storage, API_KEY))
            THEN /\ ev'.value = Null
                 /\ imageCache' = imageCache
                 /\ chapterPageUrls' = chapterPageUrls
            ELSE /\ ev'.value =
                      getItem(storage, BASE_URL) \o "/api/"
                        \o Endpoint(RefOf(ev'.key)) \o "?"
                        \o JoinParams(RefParams(RefOf(ev'.key)))
                        \o "&apiKey=" \o getItem(storage, API_KEY)
                 /\ ev'.key = "page_1_1" =>
                      ev'.value =
                        "https://host1/kavita/api/reader/image?chapterId=1&page=1&apiKey=apikey-0001"
                 /\ imageCache'[ev'.key].url = ev'.value
    ]_vars

\* C14, its case: getPageUrl(1, 1) on native with both credentials stored has
\* returned the direct URL and nothing is on the wire
C14_Witness ==
  /\ platform = "native"
  /\ ev.type = "fetch"
  /\ ev.key = "page_1_1"
  /\ ev.value =
       "https://host1/kavita/api/reader/image?chapterId=1&page=1&apiKey=apikey-0001"
  /\ imageCache["page_1_1"].url = ev.value
  /\ wire = EmptyBag

\* C12: a resolve call that missed the cache never throws: whatever get*ImageUrl
\* yields or throws and whether or not getImageSource throws, the call returns
\* null or a non-empty URI (an http URL or a data URI).
C12_ResolveNeverThrows ==
  qOut.done =>
    /\ ~qOut.thrown
    /\ \/ qOut.value = Null
       \/ StartsWith(qOut.value, "http")
       \/ StartsWith(qOut.value, "data:image/png;base64,")
    /\ qFetchThrows \/ qDecodeThrows => qOut.value = Null

\* C12, its case: get*ImageUrl yielded binary data, getImageSource threw, and
\* the call returned null
C12_Witness ==
  /\ qOut.done
  /\ ~qFetchThrows
  /\ qSrc = BytesSource(ServerImage)
  /\ qDecodeThrows
  /\ ~qOut.thrown
  /\ qOut.value = Null

\* The substrings that make a target image-bearing
ImageMarks == {"/image", "/cover", "series-cover", "volume-cover", "chapter-cover"}

C17_CurrentPageInRange ==
  screen.totalPages > 0 =>
    (0 <= screen.currentPage /\ screen.currentPage < screen.totalPages)

C19_AnyFailureEndsInError ==
  /\ (rEv.type = "loaded"
        /\ (~rEv.outcome.details \/ ~rEv.outcome.info \/ rEv.outcome.progress = "fail"))
       => Phase(screen) = "Error"
  /\ rEv.type = "retry" => Phase(screen) = "Loading"

\* C20: the progress timer is a trailing-edge debounce: at most one timer is
\* pending, and the timer that fires is the one the latest navigation event
\* set, for the page the screen is on.
C20_OneTrailingReport ==
  /\ Cardinality(timers) <= 1
  /\ rEv.type = "fire" => (rEv.latest /\ rEv.pageNumber = screen.currentPage)

\* C21: when a progress timer fires, the page it was set for is reported to
\* the server (Reader/progress), and the chapter is marked read
\* (Reader/mark-chapter-read) when that page is the last page.
C21_PauseReportsProgress ==
  rEv.type = "fire" =>
    /\ \E i \in DOMAIN rEv.calls :
         rEv.calls[i] = <<"Reader/progress", rEv.pageNumber>>
    /\ rEv.pageNumber = screen.totalPages =>
         \E i \in DOMAIN rEv.calls :
           rEv.calls[i] = <<"Reader/mark-chapter-read", rEv.pageNumber>>

\* C24: the pages of a loaded chapter are numbered from 1: for a chapter of n
\* pages the page objects carry pageNumber 1, 2, ..., n in order.
C24_PagesNumberedFromOne ==
  screen.totalPages > 0 =>
    /\ Len(screen.pages) = screen.totalPages
    /\ \A k \in DOMAIN screen.pages : screen.pages[k].pageNumber = k

\* C30: every page the reader components hand to loadPageImage (the page they
\* start from, the page in view after a change, the preloaded pages) is
\* within 1..totalPages.
C30_RequestedPagesInRange ==
  (screen.readerMounted /\ screen.totalPages > 0) =>
    /\ screen.shown \in 1..screen.totalPages
    /\ \A i \in DOMAIN screen.scheduled :
         screen.scheduled[i] \in 1..screen.totalPages

\* C26: the image cache changes only by clearCache or by the step in which a
\* resolution completes with a uri, which writes the whole entry (the uri and
\* the time of the write) and touches no other entry; so every entry has a
\* non-empty uri and a timestamp, and a key whose resolutions are all still
\* in flight has no entry.
C26_CacheWrittenWhole ==
  [][/\ imageCache' # imageCache =>
          \/ ev'.type = "clearCache" /\ DOMAIN imageCache' = {}
          \/ /\ ev'.type \in {"fetch", "respond"}
             /\ ev'.done
             /\ ev'.value \notin {Null, ""}
             /\ ev'.key \in DOMAIN imageCache'
             /\ imageCache'[ev'.key] = [url |-> ev'.value, timestamp |-> now']
             /\ \A k \in DOMAIN imageCache' \ {ev'.key} :
                  k \in DOMAIN imageCache /\ imageCache'[k] = imageCache[k]
     /\ \A k \in DOMAIN imageCache' :
          /\ imageCache'[k].url \notin {Null, ""}
          /\ imageCache'[k].timestamp <= now']_vars

C26_Witness ==
  /\ ev.type \in {"fetch", "respond"}
  /\ ev.done
  /\ ev.key \in DOMAIN imageCache
  /\ imageCache[ev.key].timestamp > 0
  /\ \E t \in BagToSet(tasks) :
       t.kind = "image" /\ CacheKey(t.ref) \notin DOMAIN imageCache

\* C29: a resolution that was in flight when clearCache ran writes nothing
\* when it completes: the step right after clearCache, if it completes a
\* resolution, leaves the image cache and chapterPageUrls empty.
C29_ClearCacheNotUndone ==
  [][(ev.type = "clearCache" /\ ev'.type \in {"fetch", "respond"} /\ ev'.done)
       => (imageCache' = imageCache /\ chapterPageUrls' = chapterPageUrls)]_vars

\* C22: when a request of a load settles whose screen instance is no longer
\* the one mounted, neither the mounted screen's state (pages, error,
\* isLoading) nor the store's chapter data (currentChapterDetails,
\* currentChapterInfo, currentReadingProgress, chapterError) changes.
C22_LateResultChangesNothing ==
  [][(mEv'.type = "settle" /\ mEv'.stale)
       => /\ mScreen' = mScreen
          /\ mStore'.details = mStore.details
          /\ mStore'.info = mStore.info
          /\ mStore'.progress = mStore.progress
          /\ mStore'.chapterError = mStore.chapterError]_vars

\* C23: on the web, while the last proxy health check has failed, no
\* makeRequest call sends a request to the proxy.
C23_ProxyDownBlocksRequests ==
  [][(platform = "web" /\ proxyHealth = "failed" /\ ~gOut.done /\ gOut'.done)
       => gOut'.req.via # "proxy"]_vars

\* C25: two content references with the same cache key are the same
\* reference, and a lookup of one reference never finds the entry written
\* for another.
C25_CacheKeysInjective ==
  kKeys # <<>> =>
    /\ kKeys[1] = kKeys[2] => kRefs[1] = kRefs[2]
    /\ kHit => kRefs[1] = kRefs[2]

C25_Witness ==
  /\ kKeys # <<>>
  /\ kRefs[1] = [kind |-> "page", id |-> 1, page |-> 11]
  /\ kRefs[2] = [kind |-> "page", id |-> 11, page |-> 1]
  /\ kKeys[1] # kKeys[2]
  /\ ~kHit

\* C27: the three requests of a load are all pending when the load starts,
\* and the mounted screen leaves Loading only in the step in which the last
\* pending request of its own load settles.
C27_ProceedsOnceAllSettle ==
  [][/\ \A l \in mLoads' \ mLoads :
          mEv'.type = "mount" =>
            (l.details = "pending" /\ l.info = "pending" /\ l.progress = "pending")
     /\ (mChapter # 0 /\ mChapter' # 0 /\ mScreen.isLoading /\ ~mScreen'.isLoading)
          => /\ mEv'.type = "settle"
             /\ mEv'.inst = mInst
             /\ \E l \in mLoads :
                  /\ l.inst = mInst
                  /\ Cardinality({r \in Requests : l[r] = "pending"}) = 1
             /\ \A l \in mLoads' : l.inst # mInst]_vars

C27_Witness ==
  /\ mEv.type = "settle"
  /\ mEv.inst = mInst
  /\ mChapter # 0
  /\ ~mScreen.isLoading
  /\ mScreen.pages = mChapter
  /\ mStore.progress = 0

C31_ShowsOnlyCurrentChapter ==
  \A p \in DOMAIN vw.pageUrls :
    vw.pageUrls[p] # Null => vw.pageUrls[p] = ViewUri(vw.chapterId, p)

\* C33: when a connect attempt fails, the stored base URL, API key and session
\* token are what they were before the attempt
C33_FailedConnectKeepsCredentials ==
  [][au'.ev = "connectFailed" => storage' = au'.before]_vars

\* C34: once disconnectServer has completed and until the next connect attempt,
\* the token, the API key and the base URL are absent from storage, the auth
\* store is not authenticated, checkAuthentication returns false and makeRequest
\* throws "Server URL not configured" and sends nothing
C34_DisconnectedUntilConnect ==
  [][au'.disconnected =>
       /\ getItem(storage', JWT_TOKEN) = Null
       /\ getItem(storage', API_KEY) = Null
       /\ getItem(storage', BASE_URL) = Null
       /\ ~au'.isAuthenticated
       /\ (au'.ev = "check" => ~au'.checked)
       /\ (au'.ev = "request" =>
             /\ ev'.err = ErrNoServerUrl
             /\ ev'.done
             /\ wire' = wire
             /\ tasks' = tasks)
    ]_vars

\* C34, its case: a makeRequest call made after a disconnect from a server a
\* request had been sent to
C34_Witness ==
  /\ au.disconnected
  /\ au.ev = "request"
  /\ ev.err = ErrNoServerUrl
  /\ wire # EmptyBag

\* C35: the store's isLoadingChapter flag is true as long as a chapter-details
\* or a chapter-info request is pending
C35_LoadingWhileInFlight ==
  (\E l \in mLoads : l.details = "pending" \/ l.info = "pending") =>
    mStore.isLoadingChapter

\* C36: every call of fetchAllSeries, fetchSeriesById and connectWithOdpsUrl
\* returns in the end; when it returns its loading flag is false, and its error
\* field holds a message if the call failed and is not set by the call if it
\* succeeded
C36_LoadingFlagsClear ==
  /\ \A i \in 1..MaxFlagCalls :
       (\E c \in fl.calls : c.id = i) ~> ~(\E c \in fl.calls : c.id = i)
  /\ [][fl'.ev.type = "return" =>
          /\ ~fl'.loading[fl'.ev.op]
          /\ (~fl'.ev.ok => fl'.error[fl'.ev.op] # Null)
          /\ (fl'.ev.ok => fl'.error[fl'.ev.op] \in {Null, fl.error[fl'.ev.op]})
       ]_vars

\* C36, its case: fetchSeriesById has returned after its second request, for
\* the volumes, failed
C36_Witness ==
  /\ fl.ev.type = "return"
  /\ fl.ev.op = "fetchSeriesById"
  /\ fl.ev.step = "getVolumes"
  /\ ~fl.ev.ok
  /\ ~fl.loading["fetchSeriesById"]
  /\ fl.error["fetchSeriesById"] # Null

\* C37: for every target the client sends as an image request, the proxy
\* takes its binary branch, and answers a successful request with raw bytes
C37_ProxyAgreesOnImages ==
  px.answer # NoAnswer /\ px.clientImage =>
    /\ px.answer.branch = "binary"
    /\ (px.status = 200 => px.answer.body = "bytes")

\* C38: when a load of a MangaImage completes that is not its latest, or after
\* the component unmounted, the image url, the loading flag and the error flag
\* stay as they are
C38_OnlyLatestLoadApplies ==
  [][img'.ev.type = "loaded" /\ img'.ev.stale =>
       /\ img'.imageUrl = img.imageUrl
       /\ img'.isLoading = img.isLoading
       /\ img'.error = img.error]_vars

\* C38, its case: an earlier load has completed with a url while the
\* component, still mounted, waits for the load of its current source
C38_Witness ==
  /\ img.ev.type = "loaded"
  /\ img.ev.stale
  /\ img.rendered
  /\ img.isLoading
  /\ \E l \in img.loads : l.id = img.run

\* C32: no progress timer is pending once the reader screen has unmounted,
\* and none fires after the unmount
C32_NoProgressTimerAfterUnmount ==
  /\ rEv.type = "unmount" => timers = {}
  /\ rEv.type = "fire" => screen.mounted

====
